---- MODULE Spec2Model ----
(***************************************************************************)
(* A model of the docutag scraper service: the AI concurrency gate of the  *)
(* Scraper (ollamaSemaphore), the operations that call the AI backend, the *)
(* image worker pool of processImages, and the relational store behind     *)
(* SaveScrapedData.                                                        *)
(*                                                                         *)
(* The module holds several specifications over one set of variables; each *)
(* moves the variables of one part of the program and leaves the others at *)
(* their initial values:                                                   *)
(*   SpecGate / SpecGateFair / SpecGateLive                                *)
(*                            the AI gate and the goroutines that use it   *)
(*   SpecOps                  one operation (Scrape, ExtractLinks,         *)
(*                            ScoreLinkContent, handleProcessImage) run    *)
(*                            step by step against any environment         *)
(*   SpecPool                 the worker pool of one processImages call    *)
(*   SpecDB                   concurrent SaveScrapedData and DeleteByID    *)
(*                            against the PostgreSQL schema                *)
(*   SpecMig                  MigratePostgres and RollbackPostgres, one    *)
(*                            run at a time, on a database that starts     *)
(*                            empty                                        *)
(*   SpecAPI                  the HTTP handlers of the server over the     *)
(*                            store: scrape, image by slug, tombstone,     *)
(*                            untombstone and delete                       *)
(*   SpecStorage              SaveImage calls, one after another, on the   *)
(*                            filesystem backend and on the S3 backend     *)
(*   SpecScore                the scoring step of Scrape and of            *)
(*                            ScoreLinkContent, with its scores and the    *)
(*                            configured threshold                         *)
(*   SpecWorkers              two image workers running processSingleImage *)
(*                            at the same time, step by step, on one       *)
(*                            storage directory and one images table       *)
(*   SpecShutdown             the server process from its start to its     *)
(*                            end: requests, the signal, Shutdown          *)
(***************************************************************************)
EXTENDS Integers, Naturals, Sequences, FiniteSets, TLC

VARIABLES
    ollamaSemaphore,  \* number of tokens in the buffered channel Scraper.ollamaSemaphore
    task,             \* per goroutine: where it is in an AI call site
    call,             \* one run of an operation: its step, result, warnings
    pool,             \* one run of processImages: its channels, workers and results
    scraped_data,     \* the committed rows of table scraped_data
    images,           \* the committed rows of table images
    tx,               \* the open SaveScrapedData transactions, by the URL they hold
    ret,              \* what the last store operation returned
    schema,           \* the versions whose forward SQL is in effect
    schema_version,   \* the versions recorded in the migrations table
    versionTable,     \* whether the migrations table exists
    mig,              \* one run of MigratePostgres or RollbackPostgres
    http,             \* the handler run in progress: its step and its response
    tombstones,       \* history: the images tombstoned and not cleared since
    files,            \* the files under the base path of the filesystem backend
    objects,          \* the objects in the bucket of the S3 backend
    saved,            \* history: the SaveImage calls made and what they returned
    clock,            \* the year and month of time.Now()
    scoring,          \* one run of the scoring step and its LinkScore
    workers,          \* per image worker: where it is in processSingleImage
    server            \* the server process: main, the listener, the requests

gateVars == <<ollamaSemaphore, task>>

opsVars == <<call>>
poolVars == <<pool>>
dbVars == <<scraped_data, images, tx, ret>>
migVars == <<schema, schema_version, versionTable, mig>>
apiVars == <<http, tombstones>>
storageVars == <<files, objects, saved, clock>>
scoreVars == <<scoring>>
workerVars == <<workers>>
shutdownVars == <<server>>

vars == <<ollamaSemaphore, task, call, pool, scraped_data, images, tx, ret,
          schema, schema_version, versionTable, mig, http, tombstones,
          files, objects, saved, clock, scoring, workers, server>>

\* What the actions of one part leave alone: the variables of the other parts.
notGate == <<opsVars, poolVars, dbVars, migVars, apiVars, storageVars, scoreVars,
            workerVars, shutdownVars>>
notOps == <<gateVars, poolVars, dbVars, migVars, apiVars, storageVars, scoreVars,
            workerVars, shutdownVars>>
notPool == <<gateVars, opsVars, dbVars, migVars, apiVars, storageVars, scoreVars,
            workerVars, shutdownVars>>
notDB == <<gateVars, opsVars, poolVars, migVars, apiVars, storageVars, scoreVars,
            workerVars, shutdownVars>>
notMig == <<gateVars, opsVars, poolVars, dbVars, apiVars, storageVars, scoreVars,
            workerVars, shutdownVars>>
notAPI == <<gateVars, opsVars, poolVars, migVars, tx, ret, storageVars, scoreVars,
           workerVars, shutdownVars>>
\* The scoring step moves the gate's channel; the goroutines of Part 1 stay idle.
notScore == <<task, opsVars, poolVars, dbVars, migVars, apiVars, storageVars,
             workerVars, shutdownVars>>
\* An image worker moves the gate's channel, the files and the image rows.
notWorkers == <<task, opsVars, poolVars, scraped_data, tx, ret, migVars, apiVars,
               objects, saved, clock, scoreVars, shutdownVars>>
notShutdown == <<gateVars, opsVars, poolVars, dbVars, migVars, apiVars,
                storageVars, scoreVars, workerVars>>
notStorage == <<gateVars, opsVars, poolVars, dbVars, migVars, apiVars, scoreVars,
            workerVars, shutdownVars>>

(***************************************************************************)
(* Initial values of each part (a part keeps them in the specifications    *)
(* of the other parts).                                                    *)
(***************************************************************************)
IdleCall ==
    [name |-> "none", pc |-> "idle", directImage |-> FALSE,
     result |-> "none", errKind |-> "none", warnings |-> <<>>,
     okSites |-> {}, failedSites |-> {}, cancelledSites |-> {},
     aiUsed |-> FALSE, imagesFound |-> 0, imagesReached |-> 0]

\* resultsByIndex holds a zero imageResult until a result is stored.
NoResult == [index |-> 0, pos |-> 0, warning |-> "", existingRef |-> FALSE]

IdlePool ==
    [pc |-> "idle", doc |-> <<>>, images |-> <<>>, sent |-> 0, jobs |-> <<>>,
     jobsClosed |-> FALSE, numWorkers |-> 0, busy |-> {}, exited |-> 0,
     results |-> <<>>, resultsClosed |-> FALSE, resultsByIndex |-> <<>>,
     processedImages |-> <<>>, existingRefs |-> <<>>, failedAnalysis |-> 0,
     warnings |-> <<>>, scrambled |-> FALSE]

URLs == {"u1", "u2"}

NoTx == [pc |-> "none", id |-> "", images |-> <<>>, stored |-> FALSE,
         deleted |-> {}, inserted |-> {}, next |-> 1]

NoRet == [op |-> "none", stored |-> FALSE, err |-> "", replaced |-> {}]

\* db.New on an empty database: the migrations have created the tables.
EmptyStore ==
    /\ scraped_data = {}
    /\ images = {}
    /\ tx = [u \in URLs |-> NoTx]
    /\ ret = NoRet

\* len(postgresMigrations); the versions are 1 .. LatestVersion.
LatestVersion == 10

IdleMig == [op |-> "none", pc |-> "idle", currentVersion |-> 0, index |-> 1,
            ran |-> <<>>, txSchema |-> {}, txRecorded |-> {}, txTable |-> FALSE,
            err |-> "", failedAt |-> 0, step |-> ""]

\* No request is being handled and nothing has been tombstoned.
IdleHTTP ==
    [handler |-> "none", pc |-> "idle", url |-> "", force |-> FALSE,
     slug |-> "", id |-> "", existing |-> {}, result |-> {}, seen |-> {}, image |-> {},
     status |-> 0, cached |-> FALSE, body |-> "", fetched |-> FALSE,
     aiCalled |-> FALSE, wrote |-> FALSE]

\* No scoring step is running.
IdleScoring ==
    [op |-> "none", pc |-> "idle", url |-> "", title |-> "", threshold |-> 0,
     score |-> 0, aiUsed |-> FALSE, isRecommended |-> FALSE, returned |-> FALSE,
     acquired |-> FALSE, aiCalled |-> FALSE]

\* The goroutines that run processSingleImage at the same time.
WorkerIDs == {"w1", "w2"}

\* A worker between two jobs.
IdleWorker ==
    [pc |-> "idle", url |-> "", slug |-> "", db |-> FALSE,
     storedAtLookup |-> FALSE, lookupFailed |-> FALSE, downloaded |-> FALSE,
     contentType |-> "", filePath |-> "", wrote |-> FALSE, base64 |-> FALSE,
     aiCalls |-> 0, ref |-> "", warning |-> ""]

\* The process after main has started the server: main waits for a signal,
\* the goroutine of server.Start is inside ListenAndServe.
Serving ==
    [main |-> "wait", start |-> "serving", listening |-> TRUE, handling |-> {},
     served |-> {}, dbClosed |-> FALSE, exit |-> "none", aborted |-> {}]

\* Empty storage backends in the first of two months.
NoFiles ==
    /\ files = {} /\ objects = {} /\ saved = <<>> /\ clock = "2026/11"
    /\ scoring = IdleScoring
    /\ workers = [w \in WorkerIDs |-> IdleWorker]
    /\ server = Serving

NoRequests == http = IdleHTTP /\ tombstones = {} /\ NoFiles

\* The database the server works on: db.New has run every migration.
Migrated ==
    /\ schema = 1 .. LatestVersion
    /\ schema_version = 1 .. LatestVersion
    /\ versionTable = TRUE
    /\ mig = IdleMig

(***************************************************************************)
(* Part 1: the AI concurrency gate.                                        *)
(***************************************************************************)

\* Capacity of the channel made in New (maxConcurrentOllamaRequests := 3).
maxConcurrentOllamaRequests == 3

\* Number of goroutines that may be inside an AI call site at once (request
\* handlers and image workers together).
NumTasks == 4

Tasks == 1 .. NumTasks

\* The call sites that go through acquireOllamaSlot / releaseOllamaSlot: they
\* are all in methods of Scraper (Scrape, ExtractLinks, ScoreLinkContent,
\* extractLinksWithOllama and, in the image workers, processSingleImage).
GatedSites ==
    {"content_extraction", "image_analysis", "image_ocr", "link_sanitization", "scoring"}

\* The call sites of handleProcessImage: it takes the client from
\* Scraper.OllamaClient() and calls it directly.
DirectSites == {"upload_analysis", "upload_ocr"}

IdleTask == [pc |-> "idle", via |-> "none", ctxDone |-> FALSE]

\* An AI-backend call of goroutine t is in flight.
InFlight(t) == task[t].pc = "call"

\* Goroutine t has put a token into the channel and not yet taken one out.
HoldsSlot(t) == task[t].via = "gate" /\ task[t].pc \in {"call", "release"}

GateInit ==
    /\ ollamaSemaphore = 0
    /\ task = [t \in Tasks |-> IdleTask]

\* A goroutine reaches an AI call site: a gated one starts to wait in
\* acquireOllamaSlot, handleProcessImage starts its call at once.
ReachCallSite(t) ==
    /\ task[t].pc = "idle"
    /\ \E site \in GatedSites \cup DirectSites :
          task' = [task EXCEPT ![t] =
                     IF site \in GatedSites
                       THEN [pc |-> "acquire", via |-> "gate", ctxDone |-> FALSE]
                       ELSE [pc |-> "call", via |-> "direct", ctxDone |-> FALSE]]
    /\ UNCHANGED <<ollamaSemaphore, notGate>>

\* The context of a goroutine's operation is cancelled or its deadline fires
\* (the handlers' 10-minute deadline, or the client going away).
CancelContext(t) ==
    /\ task[t].pc # "idle"
    /\ ~task[t].ctxDone
    /\ task' = [task EXCEPT ![t].ctxDone = TRUE]
    /\ UNCHANGED <<ollamaSemaphore, notGate>>

\* The mutant of SlotFree: a send that never blocks (an unbounded channel).
SlotFreeUnbounded == TRUE

\* `case s.ollamaSemaphore <- struct{}{}` is ready: the channel is not full.
SlotFree == ollamaSemaphore < maxConcurrentOllamaRequests

\* The mutant of acquireOllamaSlot: a plain blocking send, without the
\* ctx.Done() case.
acquireOllamaSlotBlocking(t) ==
    /\ task[t].pc = "acquire"
    /\ SlotFree
    /\ ollamaSemaphore' = ollamaSemaphore + 1
    /\ task' = [task EXCEPT ![t].pc = "call"]
    /\ UNCHANGED notGate

\* acquireOllamaSlot: a select over the send into the semaphore and ctx.Done().
\* When both are ready Go takes either.
acquireOllamaSlot(t) ==
    /\ task[t].pc = "acquire"
    /\ \/ /\ SlotFree
          /\ ollamaSemaphore' = ollamaSemaphore + 1
          /\ task' = [task EXCEPT ![t].pc = "call"]
       \/ /\ task[t].ctxDone
          /\ task' = [task EXCEPT ![t].pc = "cancelled"]
          /\ UNCHANGED ollamaSemaphore
    /\ UNCHANGED notGate

\* The mutant of CallReturns: a gated call that returns an error leaves its
\* call site without releaseOllamaSlot.
CallReturnsLeaking(t) ==
    /\ task[t].pc = "call"
    /\ \E failed \in BOOLEAN :
          task' = [task EXCEPT ![t] =
                     IF failed \/ task[t].via = "direct" THEN IdleTask
                     ELSE [@ EXCEPT !.pc = "release"]]
    /\ UNCHANGED <<ollamaSemaphore, notGate>>

\* The AI-backend call returns (with a result or an error; a cancelled context
\* makes it return an error). A gated site releases next; handleProcessImage
\* goes on to its OCR call or finishes.
CallReturns(t) ==
    /\ task[t].pc = "call"
    /\ \/ /\ task[t].via = "gate"
          /\ task' = [task EXCEPT ![t].pc = "release"]
       \/ /\ task[t].via = "direct"
          /\ \E more \in BOOLEAN :
                task' = [task EXCEPT ![t] =
                           IF more THEN [@ EXCEPT !.pc = "call"] ELSE IdleTask]
    /\ UNCHANGED <<ollamaSemaphore, notGate>>

\* The mutant of releaseOllamaSlot: the next call site (the OCR call after
\* the caption call) is entered with the slot still held.
releaseOllamaSlotNested(t) ==
    /\ task[t].pc = "release"
    /\ \E more \in BOOLEAN :
          /\ task' = [task EXCEPT ![t] =
                        IF more THEN [@ EXCEPT !.pc = "acquire"] ELSE IdleTask]
          /\ ollamaSemaphore' = IF more THEN ollamaSemaphore
                                ELSE ollamaSemaphore - 1
    /\ UNCHANGED notGate

\* releaseOllamaSlot, called right after the AI call returns; the goroutine
\* then goes on to its next call site (OCR after the caption, link
\* sanitization after the image pipeline, ...) or its operation ends.
releaseOllamaSlot(t) ==
    /\ task[t].pc = "release"
    /\ ollamaSemaphore' = ollamaSemaphore - 1
    /\ \E more \in BOOLEAN :
          task' = [task EXCEPT ![t] =
                     IF more THEN [@ EXCEPT !.pc = "acquire"] ELSE IdleTask]
    /\ UNCHANGED notGate

\* After a cancelled acquisition the step falls back to its non-AI behaviour
\* and the goroutine goes on to its next call site or its operation ends.
FallBack(t) ==
    /\ task[t].pc = "cancelled"
    /\ \E more \in BOOLEAN :
          task' = [task EXCEPT ![t] =
                     IF more THEN [@ EXCEPT !.pc = "acquire"] ELSE IdleTask]
    /\ UNCHANGED <<ollamaSemaphore, notGate>>

GateNext ==
    \E t \in Tasks :
        \/ ReachCallSite(t)
        \/ CancelContext(t)
        \/ acquireOllamaSlot(t)
        \/ CallReturns(t)
        \/ releaseOllamaSlot(t)
        \/ FallBack(t)

InitGate ==
    GateInit /\ call = IdleCall /\ pool = IdlePool /\ EmptyStore /\ Migrated
    /\ NoRequests

SpecGate == InitGate /\ [][GateNext]_vars

\* A goroutine blocked in the select of acquireOllamaSlot runs as soon as one
\* of its cases is ready; nothing is assumed about AI calls returning.
SpecGateFair == SpecGate /\ \A t \in Tasks : WF_vars(acquireOllamaSlot(t))

\* Every AI call returns and the goroutine goes on to its release.  A sender
\* blocked on the channel is served in its turn when a token is taken out
\* (the senders of a Go channel wait in a queue), so a waiter that finds the
\* gate free again and again gets through.
SpecGateLive ==
    SpecGate /\ \A t \in Tasks :
        /\ SF_vars(acquireOllamaSlot(t))
        /\ WF_vars(CallReturns(t))
        /\ WF_vars(releaseOllamaSlot(t))

(***************************************************************************)
(* Claims about the gate.                                                  *)
(***************************************************************************)

\* The goroutines whose AI call, made from a method of Scraper, is in flight.
GatedInFlight == {t \in Tasks : InFlight(t) /\ task[t].via = "gate"}

\* C1: at every moment, over all concurrent Scrape, ExtractLinks and
\* ScoreLinkContent calls of one Scraper and the image workers they start, at
\* most 3 AI-backend calls are in flight.
C1_GatedCallsAtMostThree ==
    Cardinality(GatedInFlight) <= maxConcurrentOllamaRequests

\* Three gated calls are in flight and a fourth caller waits for a slot.
C1_Witness ==
    /\ Cardinality(GatedInFlight) = maxConcurrentOllamaRequests
    /\ \E t \in Tasks : task[t].pc = "acquire"

\* C2: at every moment, over all requests of the server process whatever
\* their endpoint (scrape, extract-links, score, process-image), at most 3
\* AI-backend calls are in flight.
C2_AllCallsAtMostThree ==
    Cardinality({t \in Tasks : InFlight(t)}) <= maxConcurrentOllamaRequests

\* C3: a caller that waits for a slot with its context cancelled gets the
\* cancellation error on its next step while the gate is full, takes no slot
\* with it, and stops waiting even if no AI call ever returns.
C3_CancelledWaiterLeaves ==
    /\ [][\A t \in Tasks :
            (/\ task[t].pc = "acquire"
             /\ task[t].ctxDone
             /\ ~SlotFree
             /\ task'[t] # task[t])
            => (/\ task'[t].pc = "cancelled"
                /\ ollamaSemaphore' = ollamaSemaphore)]_vars
    /\ \A t \in Tasks :
          (task[t].pc = "acquire" /\ task[t].ctxDone) ~> (task[t].pc # "acquire")

\* A caller got the cancellation error while all three slots are held by others.
C3_Witness ==
    \E t \in Tasks :
        /\ task[t].pc = "cancelled"
        /\ ollamaSemaphore = maxConcurrentOllamaRequests
        /\ Cardinality({u \in Tasks : HoldsSlot(u)}) = maxConcurrentOllamaRequests

\* The goroutines between a successful acquireOllamaSlot and their
\* releaseOllamaSlot.
SlotHolders == {t \in Tasks : HoldsSlot(t)}

\* The tokens in the channel are those of the goroutines at a call site: one
\* each.
OneTokenPerHolder == ollamaSemaphore = Cardinality(SlotHolders)

\* C22: every acquisition puts one token in and makes the goroutine a
\* holder; a holder stops being one only by taking one token out, whether
\* its call succeeded, failed or ran with a cancelled context; no token is
\* taken out by a goroutine that is not a holder.  So the tokens are always
\* those of the goroutines at an AI call site, and when there is none all 3
\* slots are free.
C22_AcquireReleasePaired ==
    /\ []OneTokenPerHolder
    /\ []((SlotHolders = {}) => ollamaSemaphore = 0)
    /\ [][\A t \in Tasks :
            /\ (~HoldsSlot(t) /\ HoldsSlot(t)')
                  => ollamaSemaphore' = ollamaSemaphore + 1
            /\ (HoldsSlot(t) /\ ~HoldsSlot(t)')
                  => ollamaSemaphore' = ollamaSemaphore - 1
            /\ (HoldsSlot(t) = HoldsSlot(t)' /\ task'[t] # task[t])
                  => ollamaSemaphore' = ollamaSemaphore]_vars

\* A goroutine whose context was cancelled after it acquired is about to
\* release, with the gate full and another goroutine waiting.
C22_Witness ==
    /\ \E t \in Tasks : task[t].pc = "release" /\ task[t].ctxDone
    /\ ollamaSemaphore = maxConcurrentOllamaRequests
    /\ \E t \in Tasks : task[t].pc = "acquire"

\* C23: no goroutine holds more than one slot (the tokens are one per
\* goroutine at a call site, and a goroutine enters its next call site only
\* after its release), and, provided every AI call returns, every goroutine
\* that waits for a slot acquires one or gets the cancellation error.
C23_NoDeadlockOnGate ==
    /\ []OneTokenPerHolder
    /\ [](\A t \in Tasks : task[t].pc = "acquire" => ~HoldsSlot(t))
    /\ \A t \in Tasks :
          (task[t].pc = "acquire") ~> (task[t].pc \in {"call", "cancelled"})

\* Every goroutine is at the gate: three hold the slots and the others wait,
\* none of them cancelled.
C23_Witness ==
    /\ Cardinality(SlotHolders) = maxConcurrentOllamaRequests
    /\ \A t \in Tasks \ SlotHolders :
          task[t].pc = "acquire" /\ ~task[t].ctxDone

(***************************************************************************)
(* Part 2: one run of an operation, step by step.  The environment (the    *)
(* page server, the AI backend, the request context, storage, the          *)
(* database) answers each step in any of the ways it can.                  *)
(***************************************************************************)

ScraperOps == {"Scrape", "ExtractLinks", "ScoreLinkContent"}

\* Images found on a page by extractImages in one modelled run.
MaxPageImages == 2

\* What an AI call site can meet: the call succeeds, the call returns an
\* error (transport error, error status, malformed response), or
\* acquireOllamaSlot returns the context's error.
AIOutcomes == {"ok", "call_failed", "acquire_cancelled"}

\* What can happen to one image handed to processImages.
ImageOutcomes ==
    {"junk", "existing", "download_failed", "analysis_failed", "analysis_timeout",
     "ocr_failed", "ocr_cancelled", "ok"}

\* The warning texts of Scrape and processImages.
WarnContentFailed == "AI content extraction unavailable, using raw text"
WarnContentTimeout == "Content extraction timed out, using raw text"
WarnSkipped == "Skipped %d placeholder/temp/UI component images"
WarnLimited == "Limited to %d largest images (found %d total)"
WarnAnalysis == "AI analysis failed for %d/%d images"
WarnScoreFailed == "AI scoring unavailable, using rule-based scoring"
WarnScoreTimeout == "Scoring timed out, using rule-based scoring"
WarnSaveContent == "Failed to save content to filesystem"

Range(f) == {f[i] : i \in DOMAIN f}

\* The record of an AI call site's outcome, kept to state the claims.
Noted(c, site, outcome) ==
    [c EXCEPT !.okSites = IF outcome = "ok" THEN @ \cup {site} ELSE @,
              !.failedSites = IF outcome = "call_failed" THEN @ \cup {site} ELSE @,
              !.cancelledSites = IF outcome = "acquire_cancelled" THEN @ \cup {site} ELSE @]

Warned(c, text) == [c EXCEPT !.warnings = Append(@, text)]

Failed(c, kind) == [c EXCEPT !.pc = "done", !.result = "error", !.errKind = kind]

Succeeded(c) == [c EXCEPT !.pc = "done", !.result = "ok"]

\* A request handler calls one of the operations.  directImage says whether
\* isImageURL holds of the target URL.
BeginOp ==
    /\ call.pc = "idle"
    /\ \E name \in ScraperOps \cup {"handleProcessImage"}, direct \in BOOLEAN :
          call' = [IdleCall EXCEPT
                     !.name = name,
                     !.directImage = (direct /\ name # "handleProcessImage"),
                     !.pc = IF name = "handleProcessImage" THEN "upload_store" ELSE "validate"]
    /\ UNCHANGED notOps

\* url.Parse and the scheme check at the head of Scrape, ExtractLinks and
\* ScoreLinkContent.  Scrape replaces the fetch of a direct image URL by a
\* synthesized document; ScoreLinkContent returns a fixed score for it.
ValidateURL ==
    /\ call.pc = "validate"
    /\ \E valid \in BOOLEAN :
          call' = IF ~valid THEN Failed(call, "invalid_url")
                  ELSE IF call.directImage /\ call.name = "Scrape"
                         THEN [call EXCEPT !.pc = "content"]
                  ELSE IF call.directImage /\ call.name = "ScoreLinkContent"
                         THEN Succeeded(call)
                  ELSE [call EXCEPT !.pc = "fetch"]
    /\ UNCHANGED notOps

\* The page fetch and html.Parse.
FetchOutcomes == {"ok", "request_error", "network_error", "bad_status", "parse_error"}

FetchErrKind(o) ==
    IF o = "request_error" THEN "create_request"
    ELSE IF o = "parse_error" THEN "parse"
    ELSE "fetch"

FetchPage ==
    /\ call.pc = "fetch"
    /\ \E o \in FetchOutcomes :
          call' = IF o # "ok" THEN Failed(call, FetchErrKind(o))
                  ELSE [call EXCEPT !.pc = IF call.name = "ScoreLinkContent"
                                             THEN "score" ELSE "content"]
    /\ UNCHANGED notOps

\* The mutant of ContentStep: an AI failure returned as the operation's error.
ContentStepPropagating(c, o) ==
    IF o = "ok" THEN [Noted(c, "content_extraction", o) EXCEPT !.pc = "images"]
    ELSE Failed(Noted(c, "content_extraction", o), "ai")

\* The content-extraction step of Scrape (with warnings) and of ExtractLinks
\* (which has no warning list): on any failure the raw text is used.
ContentStep(c, o) ==
    LET n == Noted(c, "content_extraction", o)
        w == IF c.name # "Scrape" \/ o = "ok" THEN n
             ELSE IF o = "call_failed" THEN Warned(n, WarnContentFailed)
             ELSE Warned(n, WarnContentTimeout)
    IN  [w EXCEPT !.pc = IF c.name = "Scrape" THEN "images" ELSE "links"]

ExtractContent ==
    /\ call.pc = "content"
    /\ \E o \in AIOutcomes : call' = ContentStep(call, o)
    /\ UNCHANGED notOps

\* Config.MaxImages values of the modelled runs (0 = unlimited).
MaxImagesChoices == {0, 1}

Count(S, outs, kinds) == Cardinality({i \in S : outs[i] \in kinds})

NoteIf(c, cond, site, outcome) == IF cond THEN Noted(c, site, outcome) ELSE c

WarnIf(c, cond, text) == IF cond THEN Warned(c, text) ELSE c

\* The AI call sites of processSingleImage met by the images in `done`.
ImageSitesNoted(c, done, outs) ==
    LET a == NoteIf(c, Count(done, outs, {"analysis_failed"}) > 0,
                    "image_analysis", "call_failed")
        b == NoteIf(a, Count(done, outs, {"analysis_timeout"}) > 0,
                    "image_analysis", "acquire_cancelled")
        d == NoteIf(b, Count(done, outs, {"ocr_failed", "ocr_cancelled", "ok"}) > 0,
                    "image_analysis", "ok")
        e == NoteIf(d, Count(done, outs, {"ocr_failed"}) > 0, "image_ocr", "call_failed")
        f == NoteIf(e, Count(done, outs, {"ocr_cancelled"}) > 0,
                    "image_ocr", "acquire_cancelled")
    IN  NoteIf(f, Count(done, outs, {"ok"}) > 0, "image_ocr", "ok")

\* The mutant of ImagesSummary: the summary warning counts only the images
\* whose caption call failed, not the cancelled acquisitions.
ImagesSummaryNoTimeout(c, done, outs) ==
    WarnIf(ImageSitesNoted(c, done, outs),
           Count(done, outs, {"download_failed", "analysis_failed"}) > 0,
           WarnAnalysis)

\* The tail of processImages: every result with a non-empty warning
\* (download_failed, analysis_failed, analysis_timeout) counts as a failed
\* analysis, and one summary warning is added when there is any.
ImagesSummary(c, done, outs) ==
    WarnIf(ImageSitesNoted(c, done, outs),
           Count(done, outs, {"download_failed", "analysis_failed", "analysis_timeout"}) > 0,
           WarnAnalysis)

\* processImages as Scrape sees it: the images found, what happens to each,
\* and the warnings that come back.  `done` is the set of images handed to
\* the workers (all that are not junk, or the MaxImages largest of them).
ProcessImagesStep ==
    /\ call.pc = "images"
    /\ \E enabled \in BOOLEAN, limit \in MaxImagesChoices,
          n \in (IF call.directImage THEN {1} ELSE 0 .. MaxPageImages) :
        \E outs \in [1 .. n -> ImageOutcomes] :
          LET found == [call EXCEPT !.imagesFound = n, !.pc = "links"]
              kept == {i \in 1 .. n : outs[i] # "junk"}
              skipped == WarnIf(found, kept # 1 .. n, WarnSkipped)
              cut == limit > 0 /\ Cardinality(kept) > limit
          IN  IF ~enabled \/ n = 0 THEN call' = found
              ELSE IF kept = {} THEN call' = skipped
              ELSE \E done \in SUBSET kept :
                     /\ Cardinality(done) = IF cut THEN limit ELSE Cardinality(kept)
                     /\ call' = [ImagesSummary(WarnIf(skipped, cut, WarnLimited), done, outs)
                                   EXCEPT !.imagesReached =
                                            Count(done, outs, ImageOutcomes \ {"existing"})]
    /\ UNCHANGED notOps

\* extractLinksWithOllama: it returns early, without an AI call, when there
\* are no links or few clean ones; otherwise the AI filters the links and any
\* failure (call error, unparsable answer, cancelled acquisition) leaves the
\* pre-filtered list.  It returns the links only.
LinksStep(c, skip, o) ==
    LET n == IF skip THEN c
             ELSE Noted(c, "link_sanitization", IF o = "malformed" THEN "call_failed" ELSE o)
    IN  IF c.name = "Scrape" THEN [n EXCEPT !.pc = "score"] ELSE Succeeded(n)

ExtractLinksWithOllama ==
    /\ call.pc = "links"
    /\ \E skip \in (IF call.directImage THEN {TRUE} ELSE BOOLEAN),
          o \in AIOutcomes \cup {"malformed"} :
          call' = LinksStep(call, skip, o)
    /\ UNCHANGED notOps

\* The scoring step of Scrape (with warnings) and of ScoreLinkContent:
\* checkForLowQualityPatterns first (it triggers for every direct image URL),
\* then the AI call, with scoreContentFallback on any failure.
ScoreStep(c, skip, o) ==
    LET n == IF skip THEN c ELSE Noted(c, "scoring", o)
        w == IF skip \/ o = "ok" \/ c.name # "Scrape" THEN n
             ELSE IF o = "call_failed" THEN Warned(n, WarnScoreFailed)
             ELSE Warned(n, WarnScoreTimeout)
        u == [w EXCEPT !.aiUsed = (~skip /\ o = "ok")]
    IN  IF c.name = "Scrape" THEN [u EXCEPT !.pc = "save"] ELSE Succeeded(u)

ScoreContent ==
    /\ call.pc = "score"
    /\ \E skip \in (IF call.directImage THEN {TRUE} ELSE BOOLEAN), o \in AIOutcomes :
          call' = ScoreStep(call, skip, o)
    /\ UNCHANGED notOps

\* The mutant of SaveContentStep: a failed SaveContent fails the scrape.
SaveContentStepFatal(c, wanted, ok) ==
    IF wanted /\ ~ok THEN Failed(c, "storage") ELSE Succeeded(c)

\* The end of Scrape: with a storage and a non-empty content (`wanted`) the
\* content is saved; a failure is a warning.  Scrape then returns the data.
SaveContentStep(c, wanted, ok) ==
    Succeeded(WarnIf(c, wanted /\ ~ok, WarnSaveContent))

SaveContent ==
    /\ call.pc = "save"
    /\ \E wanted \in BOOLEAN, ok \in BOOLEAN : call' = SaveContentStep(call, wanted, ok)
    /\ UNCHANGED notOps

\* handleProcessImage up to the AI calls: the method, form and size checks
\* and the save of the bytes to storage.
UploadStore ==
    /\ call.pc = "upload_store"
    /\ \E o \in {"ok", "bad_request", "storage_error"} :
          call' = IF o = "ok" THEN [call EXCEPT !.pc = "upload_analysis"]
                  ELSE Failed(call, o)
    /\ UNCHANGED notOps

\* handleProcessImage: AnalyzeImage, called on the client directly; an error
\* is answered with 500 "failed to analyze image".
UploadAnalyze ==
    /\ call.pc = "upload_analysis"
    /\ \E o \in {"ok", "call_failed"} :
          call' = IF o = "ok"
                    THEN [Noted(call, "upload_analysis", o) EXCEPT !.pc = "upload_ocr"]
                    ELSE Failed(Noted(call, "upload_analysis", o), "ai")
    /\ UNCHANGED notOps

\* handleProcessImage: ExtractTextFromImage; an error is logged and ignored.
\* Then the image row is saved; an error is answered with 500.
UploadOCR ==
    /\ call.pc = "upload_ocr"
    /\ \E o \in {"ok", "call_failed"} :
          call' = [Noted(call, "upload_ocr", o) EXCEPT !.pc = "upload_db"]
    /\ UNCHANGED notOps

UploadSaveImage ==
    /\ call.pc = "upload_db"
    /\ \E ok \in BOOLEAN : call' = IF ok THEN Succeeded(call) ELSE Failed(call, "db")
    /\ UNCHANGED notOps

OpsNext ==
    \/ BeginOp
    \/ ValidateURL
    \/ FetchPage
    \/ ExtractContent
    \/ ProcessImagesStep
    \/ ExtractLinksWithOllama
    \/ ScoreContent
    \/ SaveContent
    \/ UploadStore
    \/ UploadAnalyze
    \/ UploadOCR
    \/ UploadSaveImage

InitOps ==
    GateInit /\ call = IdleCall /\ pool = IdlePool /\ EmptyStore /\ Migrated
    /\ NoRequests

SpecOps == InitOps /\ [][OpsNext]_vars

(***************************************************************************)
(* Claims about the operations.                                            *)
(***************************************************************************)

Done == call.pc = "done"

\* The call sites of the run where the AI step fell back.
FellBack == call.failedSites \cup call.cancelledSites

Warnings == Range(call.warnings)

\* C4 as stated: no AI failure at any AI call site makes the enclosing
\* operation fail.
C4_NoOperationFailsOnAI == Done => call.errKind # "ai"

\* C4 as amended: in Scrape, ExtractLinks and ScoreLinkContent no AI failure
\* fails the operation (once an AI step fell back the operation succeeds);
\* handleProcessImage fails exactly when its caption call fails, and not
\* when its OCR call fails.
C4_ScraperOpsSurviveAI ==
    Done =>
        /\ call.name \in ScraperOps =>
              /\ call.errKind # "ai"
              /\ FellBack # {} => call.result = "ok"
        /\ call.name = "handleProcessImage" =>
              (call.errKind = "ai" <=> "upload_analysis" \in call.failedSites)

\* A scrape succeeded although every one of its AI steps fell back.
C4_Witness ==
    /\ Done /\ call.name = "Scrape" /\ call.result = "ok"
    /\ {"content_extraction", "image_analysis", "link_sanitization", "scoring"}
          \subseteq FellBack

\* The warning texts the code has for each AI call site of a scrape
\* (extractLinksWithOllama returns no warning; an OCR failure is only logged).
WarningTexts(site) ==
    CASE site = "content_extraction" -> {WarnContentFailed, WarnContentTimeout}
      [] site = "scoring" -> {WarnScoreFailed, WarnScoreTimeout}
      [] site = "image_analysis" -> {WarnAnalysis}
      [] site = "image_ocr" -> {WarnAnalysis}
      [] OTHER -> {}

ScrapeReturned == Done /\ call.name = "Scrape" /\ call.result = "ok"

BackendDown == call.okSites = {} /\ call.cancelledSites = {}

C6_OnlyFetchOrParseFails ==
    (Done /\ call.name = "Scrape" /\ call.result = "error")
        => call.errKind \in {"fetch", "parse"}

\* C6 as amended: Scrape fails only when the URL is rejected, the request
\* cannot be built, the page fetch fails or the HTML cannot be parsed; no AI
\* failure, image failure or storage failure makes it return an error.
C6_OnlyInputFetchOrParseFails ==
    (Done /\ call.name = "Scrape" /\ call.result = "error")
        => /\ call.errKind \in {"invalid_url", "create_request", "fetch", "parse"}
           /\ FellBack = {} /\ call.warnings = <<>>

\* A scrape succeeded although an AI step fell back, image processing failed
\* and the content could not be saved.
C6_Witness ==
    /\ ScrapeReturned
    /\ FellBack # {}
    /\ {WarnAnalysis, WarnSaveContent} \subseteq Warnings

(***************************************************************************)
(* Part 3: the worker pool of processImages.                               *)
(*                                                                         *)
(* One call of processImages on the images of a page.  An image is known   *)
(* by its position in the document (pos); area is Width * Height from the  *)
(* tag's attributes, junk is the answer of shouldSkipImage, and kind is    *)
(* what processSingleImage will meet: an image already stored ("existing"),*)
(* a download that fails, an analysis that fails, or neither ("new").      *)
(* The goroutines of the pool have no identity in the code, so the model   *)
(* keeps the set of jobs being processed (each by one worker) and the      *)
(* number of workers that have returned.                                   *)
(***************************************************************************)
maxWorkers == 5

MaxDocImages == 6

\* Config.MaxImages: 0 is "no limit".
PoolMaxImages == {0, 2}

\* The pages the pool is run on: one without size hints, one whose images
\* carry sizes that grow and repeat down the page, one with junk, stored
\* and failing images.
PageShapes == {"plain", "sized", "mixed"}

ImageAt(shape, i) ==
    [pos  |-> i,
     area |-> IF shape = "sized" THEN i % 3 ELSE 0,
     junk |-> shape = "mixed" /\ i % 4 = 3,
     kind |-> IF shape # "mixed" THEN "new"
              ELSE IF i % 3 = 2 THEN "existing"
              ELSE IF i % 3 = 0 THEN "download_failed"
              ELSE IF i = 4 THEN "analysis_failed" ELSE "new"]

Page(shape, n) == [i \in 1 .. n |-> ImageAt(shape, i)]

Min(a, b) == IF a <= b THEN a ELSE b

\* The less function of the sort: images with an area come before images
\* without, larger areas first.  Among images the function does not order
\* (equal areas, or no area: then it compares slice indices, not images)
\* sort.Slice may leave any order.
RECURSIVE SortedBySize(_)
SortedBySize(S) ==
    IF S = {} THEN {<<>>}
    ELSE UNION {{<<x>> \o rest : rest \in SortedBySize(S \ {x})} :
                x \in {y \in S : \A z \in S : y.area >= z.area}}

numWorkersUncapped(n) == n

numWorkers(n) == Min(maxWorkers, n)

\* processSingleImage, by what the image meets: a stored image comes back as
\* a reference, a failed download or analysis as the image with a warning.
processSingleImage(index, img) ==
    [index |-> index, pos |-> img.pos,
     warning |-> IF img.kind \in {"download_failed", "analysis_failed"}
                 THEN img.kind ELSE "",
     existingRef |-> img.kind = "existing"]

\* processImages up to the start of the workers: the early returns, the junk
\* filter, the MaxImages sort and cut, then the channels and the workers.
StartProcessImages ==
    /\ pool.pc = "idle"
    /\ \E shape \in PageShapes, n \in 0 .. MaxDocImages,
          limit \in PoolMaxImages, enabled \in BOOLEAN :
          LET doc == Page(shape, n)
              filtered == SelectSeq(doc, LAMBDA img : ~img.junk)
              skipped == IF Len(filtered) < n THEN <<WarnSkipped>> ELSE <<>>
              cut == limit > 0 /\ Len(filtered) > limit
              start == [pool EXCEPT !.doc = doc]
          IN  IF ~enabled \/ n = 0
              THEN pool' = [start EXCEPT !.pc = "done",
                                         !.processedImages = [i \in 1 .. n |-> i]]
              ELSE IF filtered = <<>>
              THEN pool' = [start EXCEPT !.pc = "done", !.warnings = skipped]
              ELSE \E kept \in (IF cut
                                THEN {SubSeq(sorted, 1, limit) :
                                        sorted \in SortedBySize(Range(filtered))}
                                ELSE {filtered}) :
                     pool' = [start EXCEPT
                                !.pc = "send",
                                !.images = kept,
                                !.warnings = IF cut THEN Append(skipped, WarnLimited)
                                             ELSE skipped,
                                !.numWorkers = numWorkers(Len(kept)),
                                !.resultsByIndex = [i \in 1 .. Len(kept) |-> NoResult]]
    /\ UNCHANGED notPool

\* jobs <- imageJob{index: i, img: img}: the channel holds len(images) jobs,
\* so the send never waits.
SendJob ==
    /\ pool.pc = "send"
    /\ pool.sent < Len(pool.images)
    /\ Len(pool.jobs) < Len(pool.images)
    /\ pool' = [pool EXCEPT !.sent = @ + 1, !.jobs = Append(@, pool.sent + 1)]
    /\ UNCHANGED notPool

\* close(jobs), after the last send; the collecting loop comes next.
CloseJobs ==
    /\ pool.pc = "send"
    /\ pool.sent = Len(pool.images)
    /\ pool' = [pool EXCEPT !.jobsClosed = TRUE, !.pc = "collect"]
    /\ UNCHANGED notPool

IdleWorkers == pool.numWorkers - Cardinality(pool.busy) - pool.exited

\* A receive that leaves the job in the channel, as a broadcast would: the
\* next idle worker receives the same job again.
WorkerPeeksJob ==
    /\ pool.pc \in {"send", "collect"}
    /\ IdleWorkers > 0
    /\ pool.jobs # <<>>
    /\ Head(pool.jobs) \notin pool.busy
    /\ pool' = [pool EXCEPT !.busy = @ \cup {Head(pool.jobs)}]
    /\ UNCHANGED notPool

\* for job := range jobs: an idle worker receives the oldest job.
WorkerTakesJob ==
    /\ pool.pc \in {"send", "collect"}
    /\ IdleWorkers > 0
    /\ pool.jobs # <<>>
    /\ pool' = [pool EXCEPT !.busy = @ \cup {Head(pool.jobs)}, !.jobs = Tail(@)]
    /\ UNCHANGED notPool

\* The worker's loop body: processSingleImage, then the send on results,
\* which holds len(images) results and so never waits.
WorkerFinishesJob ==
    /\ \E i \in pool.busy :
          /\ Len(pool.results) < Len(pool.images)
          /\ pool' = [pool EXCEPT
                        !.busy = @ \ {i},
                        !.results = Append(@, processSingleImage(i, pool.images[i]))]
    /\ UNCHANGED notPool

\* range over the closed, drained jobs channel ends; defer wg.Done().
WorkerExits ==
    /\ pool.jobsClosed /\ pool.jobs = <<>>
    /\ IdleWorkers > 0
    /\ pool' = [pool EXCEPT !.exited = @ + 1]
    /\ UNCHANGED notPool

\* go func() { wg.Wait(); close(results) }(), started after close(jobs).
CloseResults ==
    /\ pool.pc = "collect"
    /\ pool.exited = pool.numWorkers
    /\ ~pool.resultsClosed
    /\ pool' = [pool EXCEPT !.resultsClosed = TRUE]
    /\ UNCHANGED notPool

\* A store in order of arrival: the result goes into the first free place.
StoreOnArrival(byIndex, r) ==
    LET free == {i \in DOMAIN byIndex : byIndex[i] = NoResult}
        first == CHOOSE i \in free : \A j \in free : i <= j
    IN  [byIndex EXCEPT ![first] = r]

\* resultsByIndex[result.index] = result
StoreResult(byIndex, r) == [byIndex EXCEPT ![r.index] = r]

\* for result := range results: one result is received and stored.  The
\* flag scrambled records that a result arrived after one of a later job.
CollectResult ==
    /\ pool.pc = "collect"
    /\ pool.results # <<>>
    /\ LET r == Head(pool.results)
       IN  pool' = [pool EXCEPT
                      !.results = Tail(@),
                      !.resultsByIndex = StoreResult(@, r),
                      !.scrambled = @ \/ \E i \in DOMAIN pool.resultsByIndex :
                                            /\ i > r.index
                                            /\ pool.resultsByIndex[i] # NoResult]
    /\ UNCHANGED notPool

\* The range over results ends when the channel is closed and drained; the
\* results are then read in index order: a reference to a stored image goes
\* to existingRefs, any other image to processedImages, warned or not.
AssembleResults ==
    /\ pool.pc = "collect"
    /\ pool.results = <<>> /\ pool.resultsClosed
    /\ LET byIndex == pool.resultsByIndex
           new == SelectSeq(byIndex, LAMBDA r : ~r.existingRef)
           refs == SelectSeq(byIndex, LAMBDA r : r.existingRef)
           failed == Cardinality({i \in DOMAIN byIndex : byIndex[i].warning # ""})
       IN  pool' = [pool EXCEPT
                      !.pc = "done",
                      !.processedImages = [i \in 1 .. Len(new) |-> new[i].pos],
                      !.existingRefs = [i \in 1 .. Len(refs) |-> refs[i].pos],
                      !.failedAnalysis = failed,
                      !.warnings = IF failed > 0 THEN Append(@, WarnAnalysis) ELSE @]
    /\ UNCHANGED notPool

\* The call has returned; the next page is processed by a new call.
ReturnProcessImages ==
    /\ pool.pc = "done"
    /\ pool' = IdlePool
    /\ UNCHANGED notPool

PoolNext ==
    \/ StartProcessImages
    \/ SendJob
    \/ CloseJobs
    \/ WorkerTakesJob
    \/ WorkerFinishesJob
    \/ WorkerExits
    \/ CloseResults
    \/ CollectResult
    \/ AssembleResults
    \/ ReturnProcessImages

InitPool ==
    GateInit /\ call = IdleCall /\ pool = IdlePool /\ EmptyStore /\ Migrated
    /\ NoRequests

SpecPool == InitPool /\ [][PoolNext]_vars

\* The goroutines of the pool are scheduled whenever they can run, and
\* every call of processSingleImage returns: each step of the function, of
\* a worker and of the closing goroutine is taken if it stays possible.
SpecPoolFair ==
    /\ SpecPool
    /\ WF_vars(SendJob) /\ WF_vars(CloseJobs)
    /\ WF_vars(WorkerTakesJob) /\ WF_vars(WorkerFinishesJob)
    /\ WF_vars(WorkerExits) /\ WF_vars(CloseResults)
    /\ WF_vars(CollectResult) /\ WF_vars(AssembleResults)

(***************************************************************************)
(* Claims about the worker pool (SpecPool).                                *)
(***************************************************************************)
PoolReturned == pool.pc = "done" /\ pool.images # <<>>

LimitApplied == WarnLimited \in Range(pool.warnings)

Positions(imgs) == [i \in 1 .. Len(imgs) |-> imgs[i].pos]

\* C7 as stated: the images of the result are in document order, whatever
\* order the workers complete in; filtered images are absent and the others
\* are never reordered.
C7_ImagesInDocumentOrder ==
    pool.pc = "done" =>
        \A i, j \in DOMAIN pool.processedImages :
            i < j => pool.processedImages[i] < pool.processedImages[j]

\* C7 as amended: the images of the result are the images handed to the
\* workers, less those already stored, in the order they were handed over,
\* whatever order the workers complete in.  Without a MaxImages cut that is
\* document order with the junk and the stored images absent; after a cut it
\* is the order of the sort, largest area first.
C7_ImagesInJobOrder ==
    PoolReturned =>
        LET out == pool.processedImages
            fresh(img) == img.kind # "existing"
        IN  /\ out = Positions(SelectSeq(pool.images, fresh))
            /\ IF LimitApplied
               THEN \A i, j \in DOMAIN out :
                        i < j => pool.doc[out[i]].area >= pool.doc[out[j]].area
               ELSE out = Positions(SelectSeq(pool.doc,
                                     LAMBDA img : ~img.junk /\ fresh(img)))

\* Results arrived out of order, junk and stored images were dropped, no cut
\* applied, and several images are in the result.
C7_Witness ==
    /\ PoolReturned /\ pool.scrambled /\ ~LimitApplied
    /\ Len(pool.processedImages) >= 2
    /\ pool.existingRefs # <<>>
    /\ WarnSkipped \in Range(pool.warnings)

\* C8: at most min(5, number of images to process) images are being
\* downloaded or analyzed at the same time.
C8_AtMostFiveInProcess ==
    /\ Cardinality(pool.busy) <= maxWorkers
    /\ Cardinality(pool.busy) <= Len(pool.images)

\* Five images are in process while a sixth waits in the jobs channel.
C8_Witness ==
    /\ Cardinality(pool.busy) = maxWorkers
    /\ pool.jobs # <<>>

\* Where job i of the running call is: how many copies of it are still to
\* be sent, in the jobs channel, with a worker, in the results channel, and
\* already collected.
Occurrences(seq, i) == Cardinality({k \in DOMAIN seq : seq[k] = i})

CopiesOfJob(i) ==
    (IF i > pool.sent THEN 1 ELSE 0)
    + Occurrences(pool.jobs, i)
    + (IF i \in pool.busy THEN 1 ELSE 0)
    + Cardinality({k \in DOMAIN pool.results : pool.results[k].index = i})
    + (IF pool.resultsByIndex[i] # NoResult THEN 1 ELSE 0)

PoolRunning == pool.pc \in {"send", "collect"}

\* Every image handed to the pool is at one place at a time, so it is taken
\* by one worker, processed once and collected once.
EachImageOnce == PoolRunning => \A i \in DOMAIN pool.images : CopiesOfJob(i) = 1

\* A send on jobs or on results finds room in the channel, and no result is
\* sent on a closed channel.
NoSendBlocks ==
    /\ (pool.pc = "send" /\ pool.sent < Len(pool.images))
           => Len(pool.jobs) < Len(pool.images)
    /\ pool.busy # {} => Len(pool.results) < Len(pool.images) /\ ~pool.resultsClosed

\* close(results) comes after every worker has returned.
ClosedAfterWorkers ==
    pool.resultsClosed =>
        pool.exited = pool.numWorkers /\ pool.busy = {} /\ pool.jobs = <<>>

\* C24: once every call of processSingleImage returns, the pool terminates:
\* every image that survives the filter and the MaxImages cut is processed
\* by one worker once and collected once, no send waits on a full channel,
\* the results channel is closed only after all workers have returned, and
\* the running call reaches its return with a result for every image.
C24_PoolTerminates ==
    /\ [](EachImageOnce /\ NoSendBlocks /\ ClosedAfterWorkers)
    /\ [](PoolReturned => \A i \in DOMAIN pool.images :
                              /\ pool.resultsByIndex[i] # NoResult
                              /\ pool.resultsByIndex[i].index = i)
    /\ PoolRunning ~> (pool.pc = "done")

\* A call on six images has returned: five workers shared the six jobs and
\* the results arrived out of order.
C24_Witness ==
    /\ PoolReturned /\ pool.scrambled
    /\ Len(pool.images) > maxWorkers
    /\ pool.exited = maxWorkers /\ pool.resultsClosed

DownloadFailed == {i \in DOMAIN pool.images : pool.images[i].kind = "download_failed"}

\* C27: when the download of an image fails, that image is absent from the
\* images of the result, a warning is recorded, every other image handed to
\* the workers is in the result (as an image or as a reference to the stored
\* one), and the call returns.
C27_FailedDownloadSkipped ==
    (PoolReturned /\ DownloadFailed # {}) =>
        /\ \A i \in DownloadFailed :
               pool.images[i].pos \notin Range(pool.processedImages)
        /\ WarnAnalysis \in Range(pool.warnings)
        /\ \A i \in DOMAIN pool.images \ DownloadFailed :
               pool.images[i].pos
                   \in Range(pool.processedImages) \cup Range(pool.existingRefs)

(***************************************************************************)
(* Part 4: the store.                                                      *)
(*                                                                         *)
(* Table scraped_data has PRIMARY KEY (id) and UNIQUE (url); table images  *)
(* has PRIMARY KEY (id) and FOREIGN KEY (scrape_id) REFERENCES             *)
(* scraped_data (id) ON DELETE CASCADE, with no action on update.  A row   *)
(* of scraped_data is [id, url, data], data being the image ids of the     *)
(* stored JSON document; a row of images is [id, scrape_id].               *)
(*                                                                         *)
(* SaveScrapedData runs its statements in one transaction at PostgreSQL's  *)
(* default READ COMMITTED level: its writes sit in tx until Commit, and a   *)
(* statement that meets a row or key written by another open transaction   *)
(* waits for that transaction to end.  The upsert is the first statement,  *)
(* so a transaction is open from its upsert on and holds the row of its    *)
(* URL; a waiting statement is one whose action is not enabled.            *)
(***************************************************************************)
ScrapeIDs == {"s1", "s2"}

ImageLists == {<<>>, <<"i1">>, <<"i2">>, <<"i1", "i2">>}

Open(u) == tx[u].pc # "none"

RowOfURL(u) == {r \in scraped_data : r.url = u}

\* The ids another open transaction has written or is about to release.
HeldIDs(u) ==
    UNION {{tx[v].id} \cup {r.id : r \in RowOfURL(v)} : v \in {w \in URLs \ {u} : Open(w)}}

Returned(op, stored, err) ==
    [op |-> op, stored |-> stored, err |-> err, replaced |-> {}]

\* INSERT INTO scraped_data ... ON CONFLICT(url) DO UPDATE SET id = excluded.id,
\* ...: the row of the URL is updated if there is one, else a row is
\* inserted.  An id that another row has violates the primary key; changing
\* the id of a row that image rows reference violates the foreign key.  On
\* an error the function returns and the deferred Rollback ends the
\* transaction.
Upsert ==
    /\ \E u \in URLs, id \in ScrapeIDs, list \in ImageLists :
           /\ ~Open(u)
           /\ id \notin HeldIDs(u)
           /\ LET old == RowOfURL(u)
                  stored == old # {}
                  sameID == \E r \in old : r.id = id
                  idTaken == \E r \in scraped_data : r.id = id /\ r.url # u
                  referenced == \E r \in old, i \in images : i.scrape_id = r.id
              IN  IF idTaken
                  THEN /\ ret' = Returned("SaveScrapedData", stored, "pk_violation")
                       /\ UNCHANGED tx
                  ELSE IF stored /\ ~sameID /\ referenced
                  THEN /\ ret' = Returned("SaveScrapedData", stored, "fk_violation")
                       /\ UNCHANGED tx
                  ELSE /\ tx' = [tx EXCEPT ![u] = [NoTx EXCEPT !.pc = "upserted",
                                                               !.id = id,
                                                               !.images = list,
                                                               !.stored = stored]]
                       /\ UNCHANGED ret
           /\ UNCHANGED <<scraped_data, images>>
    /\ UNCHANGED notDB

\* The transaction without its DELETE: the old image rows are left alone.
KeepOldImages ==
    /\ \E u \in URLs :
          /\ tx[u].pc = "upserted"
          /\ tx' = [tx EXCEPT ![u].pc = "inserting"]
    /\ UNCHANGED <<scraped_data, images, ret>>
    /\ UNCHANGED notDB

\* DELETE FROM images WHERE scrape_id = $1, with the id being saved.
DeleteOldImages ==
    /\ \E u \in URLs :
          /\ tx[u].pc = "upserted"
          /\ tx' = [tx EXCEPT ![u].pc = "inserting",
                              ![u].deleted = {i \in images : i.scrape_id = tx[u].id}]
    /\ UNCHANGED <<scraped_data, images, ret>>
    /\ UNCHANGED notDB

\* The same INSERT sent on the connection pool instead of the transaction:
\* the row is committed at once.
ExecInsertOnConn(u, row) ==
    [committed |-> images \cup {row}, tx |-> [tx EXCEPT ![u].next = @ + 1]]

\* tx.Exec(imageQuery, ...): the row is written inside the transaction.
ExecInsert(u, row) ==
    [committed |-> images,
     tx |-> [tx EXCEPT ![u].next = @ + 1, ![u].inserted = @ \cup {row}]]

\* One turn of the loop over data.Images.  An image id that an image row of
\* another scrape has violates the primary key of images; the insert waits
\* while another open transaction has inserted or deleted a row of that id.
InsertImage ==
    /\ \E u \in URLs :
          /\ tx[u].pc = "inserting"
          /\ tx[u].next <= Len(tx[u].images)
          /\ LET row == [id |-> tx[u].images[tx[u].next], scrape_id |-> tx[u].id]
                 w == ExecInsert(u, row)
             IN  /\ \A v \in URLs \ {u} :
                        \A i \in tx[v].inserted \cup tx[v].deleted : i.id # row.id
                 /\ IF \E i \in images \ tx[u].deleted : i.id = row.id
                    THEN /\ tx' = [tx EXCEPT ![u] = NoTx]
                         /\ ret' = Returned("SaveScrapedData", tx[u].stored, "pk_violation")
                         /\ UNCHANGED images
                    ELSE /\ images' = w.committed
                         /\ tx' = w.tx
                         /\ UNCHANGED ret
    /\ UNCHANGED scraped_data
    /\ UNCHANGED notDB

\* tx.Commit(): the writes of the transaction become visible together.
Commit ==
    /\ \E u \in URLs :
          /\ tx[u].pc = "inserting"
          /\ tx[u].next > Len(tx[u].images)
          /\ scraped_data' = (scraped_data \ RowOfURL(u)) \cup
                                {[id |-> tx[u].id, url |-> u, data |-> tx[u].images]}
          /\ images' = (images \ tx[u].deleted) \cup tx[u].inserted
          /\ ret' = [Returned("SaveScrapedData", tx[u].stored, "")
                       EXCEPT !.replaced = tx[u].deleted]
          /\ tx' = [tx EXCEPT ![u] = NoTx]
    /\ UNCHANGED notDB

\* A statement or the commit fails for a reason outside the data (the
\* connection is lost): the function returns the error and the deferred
\* tx.Rollback() discards the writes.
Rollback ==
    /\ \E u \in URLs :
          /\ Open(u)
          /\ ret' = Returned("SaveScrapedData", tx[u].stored, "interrupted")
          /\ tx' = [tx EXCEPT ![u] = NoTx]
    /\ UNCHANGED <<scraped_data, images>>
    /\ UNCHANGED notDB

\* DELETE FROM scraped_data WHERE id = $1, on the pool (its own transaction).
\* It waits while an open transaction holds the row; the image rows of the
\* record go with it (ON DELETE CASCADE); no row deleted is an error.
DeleteByID ==
    /\ \E id \in ScrapeIDs :
          LET row == {r \in scraped_data : r.id = id}
          IN  /\ \A r \in row : ~Open(r.url)
              /\ scraped_data' = scraped_data \ row
              /\ images' = {i \in images : i.scrape_id # id \/ row = {}}
              /\ ret' = Returned("DeleteByID", row # {},
                                 IF row = {} THEN "not_found" ELSE "")
    /\ UNCHANGED tx
    /\ UNCHANGED notDB

ImageIDs == {"i1", "i2"}

\* SaveImage: one INSERT INTO images on the pool.  An id that an image row
\* has violates the primary key; a scrape_id that no record has violates the
\* foreign key (the empty string is a value like any other, not NULL).  The
\* insert waits while an open transaction has written a row of that id or
\* is changing the id of the record.
SaveImage(id, scrapeID) ==
    LET owner == {r \in scraped_data : r.id = scrapeID}
    IN  /\ \A u \in URLs : \A i \in tx[u].inserted \cup tx[u].deleted : i.id # id
        /\ \A r \in owner : Open(r.url) => tx[r.url].id = scrapeID
        /\ IF \E i \in images : i.id = id
           THEN /\ ret' = Returned("SaveImage", FALSE, "pk_violation")
                /\ UNCHANGED images
           ELSE IF owner = {}
           THEN /\ ret' = Returned("SaveImage", FALSE, "fk_violation")
                /\ UNCHANGED images
           ELSE /\ ret' = Returned("SaveImage", FALSE, "")
                /\ images' = images \cup {[id |-> id, scrape_id |-> scrapeID]}

\* handleProcessImage stores the uploaded image with s.db.SaveImage(&img, ""),
\* the only call of SaveImage in the program.
SaveUploadedImage ==
    /\ \E id \in ImageIDs : SaveImage(id, "")
    /\ UNCHANGED <<scraped_data, tx>>
    /\ UNCHANGED notDB

\* GetImagesByScrapeID: one SELECT on the pool sees the committed rows.
GetImagesByScrapeID(id) == {i \in images : i.scrape_id = id}

\* GetByID: the stored document of a record, here its image ids.
GetByID(id) == {r.data : r \in {q \in scraped_data : q.id = id}}

DBNext ==
    \/ Upsert
    \/ DeleteOldImages
    \/ InsertImage
    \/ Commit
    \/ Rollback
    \/ DeleteByID
    \/ SaveUploadedImage

InitDB ==
    GateInit /\ call = IdleCall /\ pool = IdlePool /\ EmptyStore /\ Migrated
    /\ NoRequests

SpecDB == InitDB /\ [][DBNext]_vars

(***************************************************************************)
(* Claims about the store (SpecDB).                                        *)
(***************************************************************************)
ImageRows(list, id) == {[id |-> list[k], scrape_id |-> id] : k \in DOMAIN list}

\* What a reader finds for a scrape is the whole image list of the document
\* stored for it, and nothing if there is no such document.
WholeSaveVisible ==
    \A id \in ScrapeIDs :
        GetImagesByScrapeID(id) = UNION {ImageRows(list, id) : list \in GetByID(id)}

\* A change of what a reader finds for a scrape is the commit of one save of
\* that scrape, which installs all of its images, or the end of the record.
WholeSaveInstalled ==
    \A id \in ScrapeIDs :
        GetImagesByScrapeID(id)' # GetImagesByScrapeID(id) =>
            \/ \E u \in URLs :
                  /\ Open(u) /\ tx'[u] = NoTx /\ tx[u].id = id
                  /\ GetImagesByScrapeID(id)' = ImageRows(tx[u].images, id)
            \/ GetImagesByScrapeID(id)' = {} /\ GetByID(id)' = {}

\* C9: at every moment a reader of the store sees, for a scrape, exactly the
\* image rows of its previous save or exactly those of its new save, never
\* a mixture and never a part.
C9_ReaderSeesWholeSaves == []WholeSaveVisible /\ [][WholeSaveInstalled]_vars

\* A re-save of a stored scrape has deleted the old image rows and inserted
\* one of its two new ones, and the reader still finds exactly the old rows.
C9_Witness ==
    \E u \in URLs :
        /\ tx[u].pc = "inserting" /\ tx[u].stored
        /\ tx[u].deleted # {}
        /\ tx[u].inserted # {} /\ tx[u].next <= Len(tx[u].images)
        /\ GetImagesByScrapeID(tx[u].id) = tx[u].deleted
        /\ tx[u].inserted \cap tx[u].deleted = {}

OneRecordPerURL == \A r, q \in scraped_data : r.url = q.url => r = q

\* C10 as stated: the store holds at most one record per URL, and a save of
\* a URL that is already stored overwrites the record: unless it is
\* interrupted from outside, it is not refused.
C10_OneRecordPerURLUpsert ==
    /\ OneRecordPerURL
    /\ (ret.op = "SaveScrapedData" /\ ret.stored) => ret.err \in {"", "interrupted"}

\* The save of u commits in this step.
Commits(u) == tx[u].pc = "inserting" /\ tx'[u] = NoTx /\ ret'.err = ""

Owners(i) == {r \in scraped_data : r.id = i.scrape_id}

EveryImageOwned == \A i \in images : Cardinality(Owners(i)) = 1

\* C12 as stated: every stored image row belongs to exactly one existing
\* record, except the rows of the upload endpoint, which are stored with an
\* empty scrape association: the store takes such a row.
C12_ImagesOwnedOrUploaded ==
    /\ \A i \in images : i.scrape_id = "" \/ Cardinality(Owners(i)) = 1
    /\ ret.op = "SaveImage" => ret.err # "fk_violation"

(***************************************************************************)
(* Part 5: schema migrations.                                              *)
(*                                                                         *)
(* MigratePostgres and RollbackPostgres on the list postgresMigrations,    *)
(* whose versions are 1 .. LatestVersion.  schema is the set of versions   *)
(* whose forward SQL is in effect; the migrations table has its own        *)
(* variable because three statements touch it: the CREATE TABLE IF NOT     *)
(* EXISTS of ensureMigrationsTablePostgres, the forward SQL of version 2   *)
(* (the same CREATE) and the reverse SQL of version 2 (DROP TABLE).  A     *)
(* migration runs in a transaction, whose view of the database is in the   *)
(* tx fields of mig; PostgreSQL rolls back schema statements with it.  Any *)
(* statement may fail for a reason outside the data ("interrupted").       *)
(***************************************************************************)
Versions == 1 .. LatestVersion

\* SELECT COALESCE(MAX(version), 0)
MaxVersion(S) == IF S = {} THEN 0 ELSE CHOOSE v \in S : \A w \in S : w <= v

\* The function returns err; a transaction that is open is rolled back.
Fails(err, v) ==
    [mig EXCEPT !.pc = "done", !.err = err, !.failedAt = v, !.step = mig.pc,
                !.txSchema = {}, !.txRecorded = {}, !.txTable = FALSE]

\* db.Begin(): the transaction starts from the committed database.
Begun(pc) ==
    [mig EXCEPT !.pc = pc, !.txSchema = schema, !.txRecorded = schema_version,
                !.txTable = versionTable]

\* MigratePostgres, first statement: ensureMigrationsTablePostgres.
EnsureMigrationsTable ==
    /\ mig.pc = "idle"
    /\ \E ok \in BOOLEAN :
          IF ok
          THEN /\ versionTable' = TRUE
               /\ mig' = [IdleMig EXCEPT !.op = "Migrate", !.pc = "version"]
          ELSE /\ mig' = [Fails("interrupted", 0) EXCEPT !.op = "Migrate"]
               /\ UNCHANGED versionTable
    /\ UNCHANGED <<schema, schema_version>>
    /\ UNCHANGED notMig

\* getCurrentVersionPostgres, then the sort of the list by version.
ReadCurrentVersion ==
    /\ mig.pc = "version"
    /\ \E ok \in BOOLEAN :
          mig' = IF ok
                 THEN [mig EXCEPT !.pc = "loop",
                                  !.currentVersion = MaxVersion(schema_version)]
                 ELSE Fails("interrupted", 0)
    /\ UNCHANGED <<schema, schema_version, versionTable>>
    /\ UNCHANGED notMig

\* The test with an off-by-one: the first pending version is skipped too.
AppliedThrough(v, current) == v <= current + 1

\* if m.Version <= currentVersion { continue }
Applied(v, current) == v <= current

SkipApplied ==
    /\ mig.pc = "loop"
    /\ mig.index <= LatestVersion
    /\ Applied(mig.index, mig.currentVersion)
    /\ mig' = [mig EXCEPT !.index = @ + 1]
    /\ UNCHANGED <<schema, schema_version, versionTable>>
    /\ UNCHANGED notMig

\* runMigrationPostgres: db.Begin().
BeginMigration ==
    /\ mig.pc = "loop"
    /\ mig.index <= LatestVersion
    /\ ~Applied(mig.index, mig.currentVersion)
    /\ \E ok \in BOOLEAN :
          mig' = IF ok THEN Begun("up") ELSE Fails("interrupted", mig.index)
    /\ UNCHANGED <<schema, schema_version, versionTable>>
    /\ UNCHANGED notMig

\* The forward SQL sent on the pool instead of the transaction.
ExecUpOnConn(v) ==
    [committed |-> schema \cup {v}, tx |-> mig.txSchema \cup {v}]

\* tx.Exec(m.Up)
ExecUp(v) == [committed |-> schema, tx |-> mig.txSchema \cup {v}]

ExecUpSQL ==
    /\ mig.pc = "up"
    /\ \E ok \in BOOLEAN :
          LET w == ExecUp(mig.index)
          IN  /\ schema' = IF ok THEN w.committed ELSE schema
              /\ mig' = IF ok
                        THEN [mig EXCEPT !.pc = "record", !.txSchema = w.tx,
                                         !.txTable = @ \/ mig.index = 2]
                        ELSE Fails("interrupted", mig.index)
    /\ UNCHANGED <<schema_version, versionTable>>
    /\ UNCHANGED notMig

\* INSERT INTO scraper_schema_version (version, name): version is the
\* primary key of the table.
RecordVersion ==
    /\ mig.pc = "record"
    /\ \E ok \in BOOLEAN :
          mig' = IF ~mig.txTable THEN Fails("no_table", mig.index)
                 ELSE IF mig.index \in mig.txRecorded
                 THEN Fails("duplicate_version", mig.index)
                 ELSE IF ok
                 THEN [mig EXCEPT !.pc = "commit", !.txRecorded = @ \cup {mig.index}]
                 ELSE Fails("interrupted", mig.index)
    /\ UNCHANGED <<schema, schema_version, versionTable>>
    /\ UNCHANGED notMig

\* tx.Commit(): the forward SQL and the record take effect together, and the
\* loop goes on to the next migration.
CommitMigration ==
    /\ mig.pc = "commit" /\ mig.op = "Migrate"
    /\ \E ok \in BOOLEAN :
          IF ok
          THEN /\ schema' = mig.txSchema
               /\ schema_version' = mig.txRecorded
               /\ versionTable' = mig.txTable
               /\ mig' = [mig EXCEPT !.pc = "loop", !.index = @ + 1,
                                     !.ran = Append(@, mig.index),
                                     !.txSchema = {}, !.txRecorded = {},
                                     !.txTable = FALSE]
          ELSE /\ mig' = Fails("interrupted", mig.index)
               /\ UNCHANGED <<schema, schema_version, versionTable>>
    /\ UNCHANGED notMig

\* The loop is over: MigratePostgres returns nil.
MigrateReturns ==
    /\ mig.pc = "loop"
    /\ mig.index > LatestVersion
    /\ mig' = [mig EXCEPT !.pc = "done"]
    /\ UNCHANGED <<schema, schema_version, versionTable>>
    /\ UNCHANGED notMig

\* RollbackPostgres up to db.Begin(): the version query fails when the table
\* does not exist; version 0 is "no migrations to rollback".
BeginRollback ==
    /\ mig.pc = "idle"
    /\ \E ok \in BOOLEAN :
          LET current == MaxVersion(schema_version)
              started == [IdleMig EXCEPT !.op = "Rollback",
                                         !.currentVersion = current,
                                         !.index = current]
          IN  mig' = IF ~versionTable
                     THEN [Fails("no_table", 0) EXCEPT !.op = "Rollback"]
                     ELSE IF ~ok
                     THEN [Fails("interrupted", 0) EXCEPT !.op = "Rollback"]
                     ELSE IF current = 0
                     THEN [started EXCEPT !.pc = "done", !.err = "no_migrations"]
                     ELSE [started EXCEPT !.pc = "down",
                                          !.txSchema = schema,
                                          !.txRecorded = schema_version,
                                          !.txTable = versionTable]
    /\ UNCHANGED <<schema, schema_version, versionTable>>
    /\ UNCHANGED notMig

\* tx.Exec(targetMigration.Down): the reverse SQL of version 2 drops the
\* migrations table, and its rows with it.
ExecDownSQL ==
    /\ mig.pc = "down"
    /\ \E ok \in BOOLEAN :
          LET v == mig.currentVersion
          IN  mig' = IF ok
                     THEN [mig EXCEPT !.pc = "remove",
                                      !.txSchema = @ \ {v},
                                      !.txTable = @ /\ v # 2,
                                      !.txRecorded = IF v = 2 THEN {} ELSE @]
                     ELSE Fails("interrupted", v)
    /\ UNCHANGED <<schema, schema_version, versionTable>>
    /\ UNCHANGED notMig

\* DELETE FROM scraper_schema_version WHERE version = $1
RemoveRecord ==
    /\ mig.pc = "remove"
    /\ \E ok \in BOOLEAN :
          LET v == mig.currentVersion
          IN  mig' = IF ~mig.txTable THEN Fails("no_table", v)
                     ELSE IF ok
                     THEN [mig EXCEPT !.pc = "commit", !.txRecorded = @ \ {v}]
                     ELSE Fails("interrupted", v)
    /\ UNCHANGED <<schema, schema_version, versionTable>>
    /\ UNCHANGED notMig

\* return tx.Commit()
CommitRollback ==
    /\ mig.pc = "commit" /\ mig.op = "Rollback"
    /\ \E ok \in BOOLEAN :
          IF ok
          THEN /\ schema' = mig.txSchema
               /\ schema_version' = mig.txRecorded
               /\ versionTable' = mig.txTable
               /\ mig' = [mig EXCEPT !.pc = "done", !.ran = <<mig.currentVersion>>,
                                     !.txSchema = {}, !.txRecorded = {},
                                     !.txTable = FALSE]
          ELSE /\ mig' = Fails("interrupted", mig.currentVersion)
               /\ UNCHANGED <<schema, schema_version, versionTable>>
    /\ UNCHANGED notMig

\* The run is over; the next one starts from what it left.
MigrationOver ==
    /\ mig.pc = "done"
    /\ mig' = IdleMig
    /\ UNCHANGED <<schema, schema_version, versionTable>>
    /\ UNCHANGED notMig

MigNext ==
    \/ EnsureMigrationsTable
    \/ ReadCurrentVersion
    \/ SkipApplied
    \/ BeginMigration
    \/ ExecUpSQL
    \/ RecordVersion
    \/ CommitMigration
    \/ MigrateReturns
    \/ BeginRollback
    \/ ExecDownSQL
    \/ RemoveRecord
    \/ CommitRollback
    \/ MigrationOver

\* A database on which nothing has run yet.
InitMig ==
    /\ GateInit /\ call = IdleCall /\ pool = IdlePool /\ EmptyStore
    /\ schema = {} /\ schema_version = {} /\ versionTable = FALSE
    /\ mig = IdleMig
    /\ NoRequests

SpecMig == InitMig /\ [][MigNext]_vars

(***************************************************************************)
(* Claims about the migrations (SpecMig).                                  *)
(***************************************************************************)
MigrateDone == mig.op = "Migrate" /\ mig.pc = "done"

\* C13: from any highest applied version v, a successful Migrate runs exactly
\* the migrations above v, each once, in ascending order, and records each,
\* so that afterwards the latest version is the highest applied one; at the
\* latest version it runs nothing.
C13_MigrateRunsPending ==
    (MigrateDone /\ mig.err = "") =>
        LET v == mig.currentVersion
        IN  /\ mig.ran = [i \in 1 .. LatestVersion - v |-> v + i]
            /\ Range(mig.ran) \subseteq schema_version \cap schema
            /\ MaxVersion(schema_version) = LatestVersion

\* A Migrate that started in the middle has succeeded.
C13_Witness ==
    /\ MigrateDone /\ mig.err = ""
    /\ mig.currentVersion \in 1 .. LatestVersion - 1
    /\ Len(mig.ran) = LatestVersion - mig.currentVersion

\* C14: if the forward SQL of a migration or the insert of its version
\* fails, neither takes effect: the version's schema changes are absent and
\* it is not recorded, the earlier versions stay applied and recorded, and no
\* later migration is run.
C14_FailedMigrationLeavesNothing ==
    (MigrateDone /\ mig.err # "" /\ mig.failedAt >= 1) =>
        LET k == mig.failedAt
        IN  /\ k \notin schema /\ k \notin schema_version
            /\ schema = 1 .. k - 1 /\ schema_version = 1 .. k - 1
            /\ \A i \in DOMAIN mig.ran : mig.ran[i] < k

\* The insert of a version failed after its forward SQL had run, in a Migrate
\* that had applied earlier migrations.
C14_Witness ==
    /\ MigrateDone /\ mig.err = "interrupted" /\ mig.step = "record"
    /\ mig.failedAt >= 2 /\ mig.ran # <<>>
    /\ mig.failedAt < LatestVersion

\* C15 as stated: with highest applied version v >= 1, Rollback reverts
\* migration v and only it: unless it is interrupted from outside, the
\* highest applied version is v - 1 afterwards and every lower version is
\* still applied and recorded.
C15_RollbackRevertsHighest ==
    (mig.op = "Rollback" /\ mig.pc = "done" /\ mig.currentVersion >= 1
        /\ mig.err # "interrupted") =>
        /\ mig.err = ""
        /\ schema_version = 1 .. mig.currentVersion - 1
        /\ schema = 1 .. mig.currentVersion - 1

(***************************************************************************)
(* Part 6: the HTTP handlers of the server over the store.  One scrape or  *)
(* image-by-slug request is handled at a time, step by step; the           *)
(* single-statement requests (tombstone, untombstone, delete) are handled  *)
(* between any two of its steps.  Image rows carry the columns the         *)
(* handlers read: slug, file_path, tags and tombstone_datetime.            *)
(***************************************************************************)
Slugs == {"a", "b"}

\* The path after /images/ may be empty.
RequestSlugs == Slugs \cup {""}

TagLists == {{}, {"Cat"}, {"dog"}}

SearchTags == {"cat", "ca", "dog", "x"}

\* strings.ToLower on the tags in use.
ToLower(t) == IF t = "Cat" THEN "cat" ELSE t

\* strings.Contains on the lower-cased tags in use.
Contains(t, sub) == t = sub \/ (t = "cat" /\ sub = "ca")

\* Where the storage backend put the file of an image.
FilePathOf(id) == IF id = "i1" THEN "images/i1.jpg" ELSE "images/i2.jpg"

\* sql.NullTime to *time.Time: a NULL column leaves the pointer nil.
\* A read that does not select tombstone_datetime (GetImageByURL).
ScanImageNoTombstone(row) ==
    [ID |-> row.id, ScraperUUID |-> row.scrape_id, Tags |-> row.tags,
     FilePath |-> row.file_path, Slug |-> row.slug, TombstoneDatetime |-> "nil"]

\* The scan of one images row into an ImageInfo.
ScanImage(row) ==
    [ID |-> row.id, ScraperUUID |-> row.scrape_id, Tags |-> row.tags,
     FilePath |-> row.file_path, Slug |-> row.slug,
     TombstoneDatetime |-> IF row.tombstone_datetime # "NULL"
                             THEN row.tombstone_datetime ELSE "nil"]

GetByURL(url) == {r \in scraped_data : r.url = url}

GetImageByID(id) == {ScanImage(r) : r \in {x \in images : x.id = id}}

\* WHERE slug = $1 LIMIT 1: the rows the store may pick from.
GetImageBySlug(slug) == {ScanImage(r) : r \in {x \in images : x.slug = slug}}

Matched(tags, searchTags) ==
    \E searchTag \in searchTags : \E tag \in tags :
        \/ Contains(ToLower(tag), ToLower(searchTag))
        \/ Contains(ToLower(searchTag), ToLower(tag))

SearchImagesByTags(searchTags) ==
    IF searchTags = {} THEN {}
    ELSE {ScanImage(r) : r \in {x \in images : Matched(x.tags, searchTags)}}

ImagesOfScrape(scrapeID) == {ScanImage(r) : r \in GetImagesByScrapeID(scrapeID)}

Respond(status) == [http EXCEPT !.pc = "done", !.status = status]

\* A request arrives at handleScrape with a URL and the force flag.
ReceiveScrape ==
    /\ http.pc = "idle"
    /\ \E url \in URLs, force \in BOOLEAN :
          http' = [IdleHTTP EXCEPT !.handler = "handleScrape", !.pc = "check",
                                   !.url = url, !.force = force]
    /\ UNCHANGED <<scraped_data, images, tombstones>>
    /\ UNCHANGED notAPI

\* A handler that never answers from the store.
CacheHitNever(force, existing) == FALSE

\* if !req.Force { existing := GetByURL; if existing != nil { ... return } }
CacheHit(force, existing) == ~force /\ existing # {}

\* The look-up of the stored record and the cached answer.
CheckExisting ==
    /\ http.pc = "check"
    /\ \E dbOK \in BOOLEAN :
          LET existing == IF http.force THEN {} ELSE GetByURL(http.url)
          IN  http' =
                IF ~http.force /\ ~dbOK THEN Respond(500)
                ELSE IF CacheHit(http.force, existing)
                     THEN [Respond(200) EXCEPT !.existing = existing,
                                               !.cached = TRUE,
                                               !.body = existing]
                     ELSE [http EXCEPT !.pc = "scrape", !.existing = existing]
    /\ UNCHANGED <<scraped_data, images, tombstones>>
    /\ UNCHANGED notAPI

\* A new ScrapedData: a new UUID, and at most one new image with a new UUID.
NewImages(scrapeID) ==
    {[id |-> i, scrape_id |-> scrapeID, slug |-> sl,
      file_path |-> IF onDisk THEN FilePathOf(i) ELSE "",
      tags |-> tg, tombstone_datetime |-> "NULL"] :
        i \in ImageIDs \ {x.id : x \in images}, sl \in Slugs,
        onDisk \in BOOLEAN, tg \in TagLists}

ScrapeResults ==
    UNION {{[id |-> id, images |-> imgs] :
                imgs \in {{}} \cup {{img} : img \in NewImages(id)}} :
           id \in ScrapeIDs \ {r.id : r \in scraped_data}}

\* s.scraper.Scrape: the page fetch, then the AI calls.
RunScrape ==
    /\ http.pc = "scrape"
    /\ \E fetched \in BOOLEAN :
          IF fetched
          THEN \E result \in ScrapeResults :
                  http' = [http EXCEPT !.pc = "save", !.result = {result},
                                       !.fetched = TRUE, !.aiCalled = TRUE]
          ELSE http' = [Respond(500) EXCEPT !.fetched = TRUE]
    /\ UNCHANGED <<scraped_data, images, tombstones>>
    /\ UNCHANGED notAPI

\* s.db.SaveScrapedData(result) with no other save under way, and the answer;
\* a failed save is logged and the result is returned all the same.
SaveResult ==
    /\ http.pc = "save"
    /\ \E result \in http.result :
          LET old == GetByURL(http.url)
              referenced == \E r \in old : \E i \in images : i.scrape_id = r.id
              row == [id |-> result.id, url |-> http.url,
                      data |-> result.images]
          IN  /\ IF referenced
                 THEN UNCHANGED <<scraped_data, images>>
                 ELSE /\ scraped_data' = (scraped_data \ old) \cup {row}
                      /\ images' = images \cup result.images
              /\ http' = [Respond(200) EXCEPT !.wrote = TRUE, !.body = {row}]
    /\ UNCHANGED tombstones
    /\ UNCHANGED notAPI

\* A request arrives at handleImageBySlug.
ReceiveImageBySlug ==
    /\ http.pc = "idle"
    /\ \E slug \in RequestSlugs :
          http' = IF slug = ""
                  THEN [IdleHTTP EXCEPT !.handler = "handleImageBySlug",
                                        !.pc = "done", !.status = 400]
                  ELSE [IdleHTTP EXCEPT !.handler = "handleImageBySlug",
                                        !.pc = "lookup", !.slug = slug]
    /\ UNCHANGED <<scraped_data, images, tombstones>>
    /\ UNCHANGED notAPI

\* A handler that serves tombstoned images.
GoneNever(image) == FALSE

\* if image.TombstoneDatetime != nil
Gone(image) == image.TombstoneDatetime # "nil"

\* GetImageBySlug and the checks on what it returns.
LookupBySlug ==
    /\ http.pc = "lookup"
    /\ \E dbOK \in BOOLEAN :
          LET found == GetImageBySlug(http.slug)
              seen == [http EXCEPT !.seen = {x \in images : x.slug = http.slug}]
          IN  IF ~dbOK THEN http' = Respond(500)
              ELSE IF found = {}
              THEN http' = [seen EXCEPT !.pc = "done", !.status = 404]
              ELSE \E image \in found :
                     http' =
                       IF Gone(image)
                       THEN [seen EXCEPT !.pc = "done", !.status = 410,
                                         !.image = {image}]
                       ELSE IF image.FilePath = ""
                       THEN [seen EXCEPT !.pc = "done", !.status = 404,
                                         !.image = {image}]
                       ELSE [seen EXCEPT !.pc = "read", !.image = {image}]
    /\ UNCHANGED <<scraped_data, images, tombstones>>
    /\ UNCHANGED notAPI

\* GET /api/images/{id}/file arrives at handleServeImageFile.
ReceiveImageFile ==
    /\ http.pc = "idle"
    /\ \E id \in ImageIDs :
          http' = [IdleHTTP EXCEPT !.handler = "handleServeImageFile",
                                   !.pc = "lookupID", !.id = id]
    /\ UNCHANGED <<scraped_data, images, tombstones>>
    /\ UNCHANGED notAPI

\* GetImageByID and the checks of handleServeImageFile on what it returns:
\* no image, no file path.
LookupByID ==
    /\ http.pc = "lookupID"
    /\ \E dbOK \in BOOLEAN :
          LET found == GetImageByID(http.id)
              seen == [http EXCEPT !.seen = {x \in images : x.id = http.id}]
          IN  IF ~dbOK THEN http' = Respond(500)
              ELSE IF found = {}
              THEN http' = [seen EXCEPT !.pc = "done", !.status = 404]
              ELSE \E image \in found :
                     http' =
                       IF image.FilePath = ""
                       THEN [seen EXCEPT !.pc = "done", !.status = 404,
                                         !.image = {image}]
                       ELSE [seen EXCEPT !.pc = "read", !.image = {image}]
    /\ UNCHANGED <<scraped_data, images, tombstones>>
    /\ UNCHANGED notAPI

\* s.storage.ReadImage(image.FilePath) and the answer with the bytes.
ReadAndServe ==
    /\ http.pc = "read"
    /\ \E readOK \in BOOLEAN : \E image \in http.image :
          http' = IF readOK
                  THEN [Respond(200) EXCEPT !.body = image.FilePath]
                  ELSE Respond(500)
    /\ UNCHANGED <<scraped_data, images, tombstones>>
    /\ UNCHANGED notAPI

\* The response has been written; the next request may be followed.
RequestOver ==
    /\ http.pc = "done"
    /\ http' = IdleHTTP
    /\ UNCHANGED <<scraped_data, images, tombstones>>
    /\ UNCHANGED notAPI

\* time.Now().UTC().Add(90 * 24 * time.Hour)
TombstoneTime == "now+90d"

\* TombstoneImageByID on a stored image (no row: an error, nothing changes).
TombstoneImageByID ==
    /\ \E id \in ImageIDs :
          /\ \E r \in images : r.id = id
          /\ images' = {IF r.id = id
                          THEN [r EXCEPT !.tombstone_datetime = TombstoneTime]
                          ELSE r : r \in images}
          /\ tombstones' = tombstones \cup {id}
    /\ UNCHANGED <<scraped_data, http>>
    /\ UNCHANGED notAPI

\* UntombstoneImageByID on a stored image.
UntombstoneImageByID ==
    /\ \E id \in ImageIDs :
          /\ \E r \in images : r.id = id
          /\ images' = {IF r.id = id
                          THEN [r EXCEPT !.tombstone_datetime = "NULL"]
                          ELSE r : r \in images}
          /\ tombstones' = tombstones \ {id}
    /\ UNCHANGED <<scraped_data, http>>
    /\ UNCHANGED notAPI

\* DeleteImageByID on a stored image.
DeleteImageByID ==
    /\ \E id \in ImageIDs :
          /\ \E r \in images : r.id = id
          /\ images' = {r \in images : r.id # id}
          /\ tombstones' = tombstones \ {id}
    /\ UNCHANGED <<scraped_data, http>>
    /\ UNCHANGED notAPI

\* handleDeleteByID: the record goes, and its image rows by the cascade.
DeleteRecord ==
    /\ \E id \in ScrapeIDs :
          /\ \E r \in scraped_data : r.id = id
          /\ scraped_data' = {r \in scraped_data : r.id # id}
          /\ images' = {i \in images : i.scrape_id # id}
          /\ tombstones' = tombstones \ {i.id : i \in GetImagesByScrapeID(id)}
    /\ UNCHANGED http
    /\ UNCHANGED notAPI

APINext ==
    \/ ReceiveScrape
    \/ CheckExisting
    \/ RunScrape
    \/ SaveResult
    \/ ReceiveImageBySlug
    \/ LookupBySlug
    \/ ReceiveImageFile
    \/ LookupByID
    \/ ReadAndServe
    \/ RequestOver
    \/ TombstoneImageByID
    \/ UntombstoneImageByID
    \/ DeleteImageByID
    \/ DeleteRecord

InitAPI ==
    GateInit /\ call = IdleCall /\ pool = IdlePool /\ EmptyStore /\ Migrated
    /\ NoRequests

SpecAPI == InitAPI /\ [][APINext]_vars

(***************************************************************************)
(* Claims about the handlers (SpecAPI).                                    *)
(***************************************************************************)
ScrapeAnswered == http.handler = "handleScrape" /\ http.pc = "done"

\* C16: a scrape request with force = false for a URL that has a stored
\* record is answered, unless the look-up itself fails, with status 200 and
\* the stored record marked cached, and the handler has fetched no page,
\* made no AI call and written nothing to the store.
C16_CachedScrapeHasNoEffect ==
    (ScrapeAnswered /\ ~http.force /\ http.existing # {} /\ http.status # 500)
        => /\ http.status = 200 /\ http.cached
           /\ http.body = http.existing
           /\ ~http.fetched /\ ~http.aiCalled /\ ~http.wrote

\* A stored record with an image was answered from the store.
C16_Witness ==
    /\ ScrapeAnswered /\ ~http.force /\ http.cached
    /\ \E r \in http.existing : r \in scraped_data /\ r.data # {}

SlugAnswered ==
    http.handler = "handleImageBySlug" /\ http.pc = "done" /\ http.slug # ""

\* C17 as stated: GET /images/{slug} answers 404 if no image has the slug,
\* 410 if the image with the slug is tombstoned, and otherwise 200 with the
\* bytes of the image (database and storage failures set aside).
C17_SlugResponseAsStated ==
    (SlugAnswered /\ http.status # 500) =>
        /\ http.seen = {} => http.status = 404
        /\ (http.seen # {} /\ \A r \in http.seen : r.tombstone_datetime # "NULL")
              => http.status = 410
        /\ (http.seen # {} /\ \A r \in http.seen : r.tombstone_datetime = "NULL")
              => /\ http.status = 200
                 /\ \E r \in http.seen : http.body = r.file_path

\* C17: GET /images/{slug} answers 404 if no image row has the slug;
\* otherwise the store picks one row with the slug, and the answer is 410 if
\* that row has a tombstone timestamp when it is looked up, 404 if it has no
\* file path, 500 if the look-up or the reading of the file fails, and
\* otherwise 200 with the bytes of the row's file.
C17_SlugResponse ==
    SlugAnswered =>
        \/ http.status = 500
        \/ http.seen = {} /\ http.status = 404
        \/ \E r \in http.seen :
              /\ \A image \in http.image : image.ID = r.id
              /\ http.status = IF r.tombstone_datetime # "NULL" THEN 410
                               ELSE IF r.file_path = "" THEN 404 ELSE 200
              /\ http.status = 200 => http.body = r.file_path

\* Two images share the slug; the one the store picked is tombstoned, the
\* other is not, and the answer is 410.
C17_Witness ==
    /\ SlugAnswered /\ http.status = 410
    /\ \E r \in http.seen : r.tombstone_datetime = "NULL"
    /\ \E r \in http.seen : r.tombstone_datetime # "NULL"

BytesStreamed ==
    /\ http.handler \in {"handleImageBySlug", "handleServeImageFile"}
    /\ http.pc = "done" /\ http.status = 200

\* C29: no route streams the bytes of a tombstoned image: when
\* GET /images/{slug} or GET /api/images/{id}/file answers with the bytes of
\* an image, the image it looked up had no tombstone.
C29_TombstonedNotServed ==
    BytesStreamed =>
        \A image \in http.image :
            image.TombstoneDatetime = "nil" /\ http.body = image.FilePath

(***************************************************************************)
(* Part 7: the storage backends.  SaveImage calls are made one after       *)
(* another, on the filesystem backend (Storage) and on the S3 backend      *)
(* (S3Storage); a file or object is a pair of its relative path and its    *)
(* bytes.  The server never calls DeleteImage.                             *)
(***************************************************************************)
\* The number of SaveImage calls followed.
MaxSaves == 3

StorageSlugs == {"a", "a-1"}

ContentTypes == {"image/jpeg", "image/png"}

Payloads == {"first image", "second image"}

extensionFromContentType(contentType) ==
    IF contentType = "image/jpeg" THEN ".jpg"
    ELSE IF contentType = "image/png" THEN ".png"
    ELSE ""

\* ext := extensionFromContentType(contentType); if ext == "" { ext = ".jpg" }
Extension(contentType) ==
    IF extensionFromContentType(contentType) = "" THEN ".jpg"
    ELSE extensionFromContentType(contentType)

\* slug + ext at first, then fmt.Sprintf("%s-%d%s", slug, counter, ext),
\* under images/YYYY/MM.
ImagePath(slug, counter, ext) ==
    "images/" \o clock \o "/" \o
        (IF counter = 0 THEN slug \o ext
         ELSE slug \o "-" \o ToString(counter) \o ext)

fileExists(path) == \E f \in files : f.path = path

\* A SaveImage that takes the first name whether or not it exists.
FirstPath(slug, counter, ext) == ImagePath(slug, counter, ext)

\* for fileExists(filePath) { ...; counter++ }
RECURSIVE UniquePath(_, _, _)
UniquePath(slug, counter, ext) ==
    IF fileExists(ImagePath(slug, counter, ext))
    THEN UniquePath(slug, counter + 1, ext)
    ELSE ImagePath(slug, counter, ext)

\* os.WriteFile and PutObject: the path holds these bytes afterwards.
Write(store, path, data) ==
    {f \in store : f.path # path} \cup {[path |-> path, data |-> data]}

\* ReadImage: the bytes at the path, none if there is no such file.
ReadImage(store, path) == {f.data : f \in {x \in store : x.path = path}}

Call(backend, slug, contentType, data, path) ==
    [backend |-> backend, slug |-> slug, contentType |-> contentType,
     data |-> data, path |-> path]

\* Storage.SaveImage.  A failed os.WriteFile may leave a truncated file and
\* returns an error with the path "".
StorageSaveImage ==
    /\ Len(saved) < MaxSaves
    /\ \E imageData \in Payloads, slug \in StorageSlugs,
          contentType \in ContentTypes,
          written \in {"all", "part"} :
          LET filePath == UniquePath(slug, 0, Extension(contentType))
          IN  /\ files' = IF written = "all" THEN Write(files, filePath, imageData)
                          ELSE Write(files, filePath, "")
              /\ saved' = Append(saved,
                              Call("Storage", slug, contentType, imageData,
                                   IF written = "all" THEN filePath ELSE ""))
    /\ UNCHANGED <<objects, clock>>
    /\ UNCHANGED notStorage

\* S3Storage.SaveImage: PutObject under images/YYYY/MM/slug+ext.
S3SaveImage ==
    /\ Len(saved) < MaxSaves
    /\ \E imageData \in Payloads, slug \in StorageSlugs,
          contentType \in ContentTypes, put \in BOOLEAN :
          LET key == ImagePath(slug, 0, Extension(contentType))
          IN  /\ objects' = IF put THEN Write(objects, key, imageData)
                            ELSE objects
              /\ saved' = Append(saved,
                              Call("S3Storage", slug, contentType, imageData,
                                   IF put THEN key ELSE ""))
    /\ UNCHANGED <<files, clock>>
    /\ UNCHANGED notStorage

\* The month ends.
NextMonth ==
    /\ clock = "2026/11"
    /\ clock' = "2026/12"
    /\ UNCHANGED <<files, objects, saved>>
    /\ UNCHANGED notStorage

StorageNext ==
    \/ StorageSaveImage
    \/ S3SaveImage
    \/ NextMonth

InitStorage ==
    GateInit /\ call = IdleCall /\ pool = IdlePool /\ EmptyStore /\ Migrated
    /\ NoRequests

SpecStorage == InitStorage /\ [][StorageNext]_vars

(***************************************************************************)
(* Claims about the storage backends (SpecStorage).                        *)
(***************************************************************************)
\* The calls on a backend that returned a path.
SavesOf(backend) ==
    {i \in DOMAIN saved : saved[i].backend = backend /\ saved[i].path # ""}

SameName(i, j) ==
    saved[i].slug = saved[j].slug /\ saved[i].contentType = saved[j].contentType

\* C19: of the filesystem SaveImage calls made so far, any two with the
\* same slug and content type returned different relative paths, and the
\* file of every call is read back with exactly the bytes it was saved with.
C19_DistinctPathsBytesKept ==
    \A j \in SavesOf("Storage") :
        /\ \A i \in SavesOf("Storage") :
              (i < j /\ SameName(i, j)) => saved[i].path # saved[j].path
        /\ ReadImage(files, saved[j].path) = {saved[j].data}

\* Three filesystem saves of one slug and content type in one month, the
\* second with other bytes than the first.
C19_Witness ==
    \E i, j, k \in SavesOf("Storage") :
        /\ i < j /\ j < k /\ SameName(i, j) /\ SameName(j, k)
        /\ saved[i].data # saved[j].data
        /\ saved[k].path = "images/2026/11/a-2.jpg"

\* C20 as stated: the S3 backend resolves collisions as the filesystem
\* backend does: any two S3 SaveImage calls with the same slug and content
\* type returned different keys, and the object of every call still holds
\* the bytes it was saved with.
C20_S3ResolvesCollisions ==
    \A j \in SavesOf("S3Storage") :
        /\ \A i \in SavesOf("S3Storage") :
              (i < j /\ SameName(i, j)) => saved[i].path # saved[j].path
        /\ ReadImage(objects, saved[j].path) = {saved[j].data}

(***************************************************************************)
(* Part 8: the scoring step of Scrape and of ScoreLinkContent.  Scores and *)
(* the threshold are in hundredths.  A URL and a title are known by what   *)
(* the pattern checks find in them.                                        *)
(***************************************************************************)
ScoreURLs == {"image", "audio_video", "undesirable", "plain"}

ScoreTitles == {"undesirable", "plain"}

\* Config.LinkScoreThreshold, taken from LINK_SCORE_THRESHOLD as it is given.
Thresholds == {0, 50, 70}

\* What the AI backend may answer.
AIScores == {0, 60, 100}

\* What scoreContentFallback may compute.
FallbackScores == {10, 50, 70}

isImageURL(url) == url = "image"

\* (shouldSkipAI, score) of checkForLowQualityPatterns.
checkForLowQualityPatterns(url, title) ==
    IF isImageURL(url) THEN [skip |-> TRUE, score |-> 0]
    ELSE IF url = "audio_video" THEN [skip |-> TRUE, score |-> 15]
    ELSE IF url = "undesirable" \/ title = "undesirable"
         THEN [skip |-> TRUE, score |-> 10]
    ELSE [skip |-> FALSE, score |-> 0]

\* Scrape reaches its scoring step, or ScoreLinkContent is called: a direct
\* image URL is answered with a fixed LinkScore, any other URL is fetched
\* first and a failed fetch returns an error and no LinkScore.
BeginScoring ==
    /\ scoring.pc = "idle"
    /\ \E op \in {"Scrape", "ScoreLinkContent"}, url \in ScoreURLs,
          title \in ScoreTitles, threshold \in Thresholds, fetched \in BOOLEAN :
          LET s == [IdleScoring EXCEPT !.op = op, !.url = url, !.title = title,
                                       !.threshold = threshold]
          IN  scoring' =
                IF op = "ScoreLinkContent" /\ isImageURL(url)
                THEN [s EXCEPT !.pc = "done", !.returned = TRUE, !.score = 0,
                               !.isRecommended = FALSE, !.aiUsed = FALSE]
                ELSE IF op = "ScoreLinkContent" /\ ~fetched
                THEN [s EXCEPT !.pc = "done"]
                ELSE [s EXCEPT !.pc = "check"]
    /\ UNCHANGED ollamaSemaphore
    /\ UNCHANGED notScore

\* The mutant of CheckPatterns: the result of the pattern check is not used.
CheckPatternsIgnored ==
    /\ scoring.pc = "check"
    /\ scoring' = [scoring EXCEPT !.pc = "acquire"]
    /\ UNCHANGED ollamaSemaphore
    /\ UNCHANGED notScore

\* checkForLowQualityPatterns(targetURL, title) and `if shouldSkipAI`.
CheckPatterns ==
    /\ scoring.pc = "check"
    /\ LET early == checkForLowQualityPatterns(scoring.url, scoring.title)
       IN  scoring' = IF early.skip
                      THEN [scoring EXCEPT !.pc = "build", !.score = early.score,
                                           !.aiUsed = FALSE]
                      ELSE [scoring EXCEPT !.pc = "acquire"]
    /\ UNCHANGED ollamaSemaphore
    /\ UNCHANGED notScore

\* `else if err := s.acquireOllamaSlot(ctx); err == nil`, and the last else:
\* a cancelled context gives the rule-based score.
AcquireForScoring ==
    /\ scoring.pc = "acquire"
    /\ \/ /\ SlotFree
          /\ ollamaSemaphore' = ollamaSemaphore + 1
          /\ scoring' = [scoring EXCEPT !.pc = "call", !.acquired = TRUE]
       \/ /\ \E score \in FallbackScores :
                scoring' = [scoring EXCEPT !.pc = "build", !.score = score,
                                           !.aiUsed = FALSE]
          /\ UNCHANGED ollamaSemaphore
    /\ UNCHANGED notScore

\* ollamaClient.ScoreContent returns and the slot is released; an error gives
\* the rule-based score.
ScoreContentReturns ==
    /\ scoring.pc = "call"
    /\ ollamaSemaphore' = ollamaSemaphore - 1
    /\ \E ok \in BOOLEAN :
        \E score \in (IF ok THEN AIScores ELSE FallbackScores) :
          scoring' = [scoring EXCEPT !.pc = "build", !.score = score,
                                     !.aiUsed = ok, !.aiCalled = TRUE]
    /\ UNCHANGED notScore

\* IsRecommended: score >= s.config.LinkScoreThreshold, and the LinkScore.
BuildLinkScore ==
    /\ scoring.pc = "build"
    /\ scoring' = [scoring EXCEPT
                     !.pc = "done", !.returned = TRUE,
                     !.isRecommended = (scoring.score >= scoring.threshold)]
    /\ UNCHANGED ollamaSemaphore
    /\ UNCHANGED notScore

\* The operation has returned; the next run may be followed.
ScoringOver ==
    /\ scoring.pc = "done"
    /\ scoring' = IdleScoring
    /\ UNCHANGED ollamaSemaphore
    /\ UNCHANGED notScore

ScoreNext ==
    \/ BeginScoring
    \/ CheckPatterns
    \/ AcquireForScoring
    \/ ScoreContentReturns
    \/ BuildLinkScore
    \/ ScoringOver

InitScore ==
    GateInit /\ call = IdleCall /\ pool = IdlePool /\ EmptyStore /\ Migrated
    /\ NoRequests

SpecScore == InitScore /\ [][ScoreNext]_vars

(***************************************************************************)
(* Claims about the scoring step (SpecScore).                              *)
(***************************************************************************)
LinkScoreReturned == scoring.pc = "done" /\ scoring.returned

\* C21 as stated: every LinkScore returned by Scrape or ScoreLinkContent has
\* IsRecommended true exactly when its Score is at least the configured
\* threshold.
C21_RecommendedIffAtThreshold ==
    LinkScoreReturned =>
        (scoring.isRecommended <=> scoring.score >= scoring.threshold)

\* C30: whenever the low-quality pattern check triggers for the URL and the
\* title, the scoring step never acquires a gate slot and makes no AI
\* scoring call, and the LinkScore it returns has AIUsed false.
C30_LowQualitySkipsAI ==
    (scoring.pc # "idle"
        /\ checkForLowQualityPatterns(scoring.url, scoring.title).skip) =>
        /\ ollamaSemaphore = 0
        /\ scoring.pc \notin {"acquire", "call"}
        /\ ~scoring.acquired /\ ~scoring.aiCalled
        /\ LinkScoreReturned => ~scoring.aiUsed

\* A Scrape of a page whose title alone triggers the check has returned its
\* LinkScore, with the early score.
C30_Witness ==
    /\ LinkScoreReturned /\ scoring.op = "Scrape"
    /\ scoring.url = "plain" /\ scoring.title = "undesirable"
    /\ scoring.score = 10

(***************************************************************************)
(* Part 9: processSingleImage, step by step, in two workers at once.  The  *)
(* workers share the storage directory (files), the images table and the   *)
(* AI gate.  The bytes of an image are named by its URL; a row of images   *)
(* is kept as its URL.  Storage.SaveImage is two steps, as in its code:    *)
(* the loop over fileExists that settles the path, then os.WriteFile.      *)
(* A step that returns from processSingleImage leaves the worker at        *)
(* "returned", with the values it returns.                                 *)
(***************************************************************************)
\* Workers take a new image while the directory holds fewer files.
MaxStoredFiles == 2

PageImageURLs == {"img1", "img2"}

\* slug.FromImageInfo(img.AltText, img.URL): images may share an alt text.
AltSlugs == {"a", "b"}

\* The Content-Type header of the image responses.
DownloadTypes == {"image/jpeg"}

Active(w) == workers[w].pc # "idle"

\* A lookup that never finds the image.
LookupFoundNever(db, failed, stored) == FALSE

\* if s.db != nil { existingImage, err := GetImageByURL; err == nil and
\* existingImage != nil }
LookupFound(db, failed, stored) == db /\ ~failed /\ stored

\* A worker receives an image and looks its URL up; a failed lookup is
\* logged and the image is treated as new.
StartImage(w) ==
    /\ workers[w].pc = "idle"
    /\ Cardinality(files) < MaxStoredFiles
    /\ \E url \in PageImageURLs, slug \in AltSlugs, db \in BOOLEAN,
          failed \in BOOLEAN :
          /\ \A v \in WorkerIDs : Active(v) => workers[v].db = db
          /\ failed => db
          /\ LET stored == \E row \in images : row.url = url
                 start == [IdleWorker EXCEPT !.url = url, !.slug = slug,
                                             !.db = db,
                                             !.storedAtLookup = stored,
                                             !.lookupFailed = failed]
             IN  workers' = [workers EXCEPT ![w] =
                                IF LookupFound(db, failed, stored)
                                THEN [start EXCEPT !.pc = "returned", !.ref = url]
                                ELSE [start EXCEPT !.pc = "download"]]
    /\ UNCHANGED <<ollamaSemaphore, files, images>>
    /\ UNCHANGED notWorkers

\* s.downloadImage(ctx, img.URL)
DownloadImage(w) ==
    /\ workers[w].pc = "download"
    /\ \/ \E contentType \in DownloadTypes :
             workers' = [workers EXCEPT ![w].pc = "check",
                                        ![w].downloaded = TRUE,
                                        ![w].contentType = contentType]
       \/ workers' = [workers EXCEPT ![w].pc = "returned",
                                     ![w].downloaded = TRUE,
                                     ![w].warning = "download_failed"]
    /\ UNCHANGED <<ollamaSemaphore, files, images>>
    /\ UNCHANGED notWorkers

\* SaveImage up to the end of its loop: the first path that fileExists does
\* not find.  A Scraper without storage keeps the bytes as base64.
CheckPath(w) ==
    /\ workers[w].pc = "check"
    /\ \/ workers' = [workers EXCEPT
                        ![w].pc = "write",
                        ![w].filePath = UniquePath(workers[w].slug, 0,
                                            Extension(workers[w].contentType))]
       \/ workers' = [workers EXCEPT ![w].pc = "analyze", ![w].base64 = TRUE]
    /\ UNCHANGED <<ollamaSemaphore, files, images>>
    /\ UNCHANGED notWorkers

\* os.WriteFile(filePath, imageData, 0644) creates or truncates the file;
\* on an error SaveImage fails and the bytes are kept as base64.
WriteFile(w) ==
    /\ workers[w].pc = "write"
    /\ \/ /\ files' = Write(files, workers[w].filePath, workers[w].url)
          /\ workers' = [workers EXCEPT ![w].pc = "analyze", ![w].wrote = TRUE]
       \/ /\ workers' = [workers EXCEPT ![w].pc = "analyze",
                                        ![w].filePath = "",
                                        ![w].base64 = TRUE]
          /\ UNCHANGED files
    /\ UNCHANGED <<ollamaSemaphore, images>>
    /\ UNCHANGED notWorkers

\* acquireOllamaSlot before AnalyzeImage and before ExtractTextFromImage; a
\* cancelled context ends the analysis ("analysis_timeout") or skips the OCR.
AcquireForImage(w) ==
    /\ workers[w].pc \in {"analyze", "ocr"}
    /\ \/ /\ SlotFree
          /\ ollamaSemaphore' = ollamaSemaphore + 1
          /\ workers' = [workers EXCEPT ![w].pc =
                            IF workers[w].pc = "analyze" THEN "analyzing"
                            ELSE "reading"]
       \/ /\ workers' = [workers EXCEPT
                           ![w].pc = "returned",
                           ![w].warning = IF workers[w].pc = "analyze"
                                          THEN "analysis_timeout" ELSE ""]
          /\ UNCHANGED ollamaSemaphore
    /\ UNCHANGED <<files, images>>
    /\ UNCHANGED notWorkers

\* The AI call returns and releaseOllamaSlot runs; a failed AnalyzeImage
\* ends the analysis, a failed OCR is only logged.
ImageCallReturns(w) ==
    /\ workers[w].pc \in {"analyzing", "reading"}
    /\ ollamaSemaphore' = ollamaSemaphore - 1
    /\ IF workers[w].pc = "reading"
       THEN workers' = [workers EXCEPT ![w].pc = "returned", ![w].aiCalls = @ + 1]
       ELSE \/ workers' = [workers EXCEPT ![w].pc = "ocr", ![w].aiCalls = @ + 1]
            \/ workers' = [workers EXCEPT ![w].pc = "returned",
                                          ![w].aiCalls = @ + 1,
                                          ![w].warning = "analysis_failed"]
    /\ UNCHANGED <<files, images>>
    /\ UNCHANGED notWorkers

\* The result is collected; handleScrape saves the row of a new image when
\* a database is configured (the save may fail), and the worker takes the
\* next job.
CollectImage(w) ==
    /\ workers[w].pc = "returned"
    /\ workers' = [workers EXCEPT ![w] = IdleWorker]
    /\ \/ /\ workers[w].db /\ workers[w].ref = ""
          /\ images' = images \cup {[url |-> workers[w].url]}
       \/ UNCHANGED images
    /\ UNCHANGED <<ollamaSemaphore, files>>
    /\ UNCHANGED notWorkers

WorkersNext ==
    \E w \in WorkerIDs :
        \/ StartImage(w)
        \/ DownloadImage(w)
        \/ CheckPath(w)
        \/ WriteFile(w)
        \/ AcquireForImage(w)
        \/ ImageCallReturns(w)
        \/ CollectImage(w)

InitWorkers ==
    GateInit /\ call = IdleCall /\ pool = IdlePool /\ EmptyStore /\ Migrated
    /\ NoRequests

SpecWorkers == InitWorkers /\ [][WorkersNext]_vars

(***************************************************************************)
(* Claims about the image workers (SpecWorkers).                           *)
(***************************************************************************)
\* SaveImage has returned a path to the worker.
SaveReturned(w) == workers[w].wrote

\* C25: two filesystem SaveImage calls made at the same time with the same
\* slug and content type return different paths, and the file of each holds
\* the bytes it was called with.
C25_ConcurrentSavesDistinct ==
    \A v, w \in WorkerIDs :
        (/\ v # w /\ SaveReturned(v) /\ SaveReturned(w)
         /\ workers[v].slug = workers[w].slug
         /\ workers[v].contentType = workers[w].contentType)
        => /\ workers[v].filePath # workers[w].filePath
           /\ ReadImage(files, workers[w].filePath) = {workers[w].url}

NotProcessed(w) ==
    /\ ~workers[w].downloaded /\ ~workers[w].wrote /\ ~workers[w].base64
    /\ workers[w].aiCalls = 0 /\ workers[w].filePath = ""
    /\ workers[w].pc = "returned"
    /\ workers[w].ref = workers[w].url

\* C28 as stated: with a database handle configured, an image whose URL is
\* already stored is not downloaded, written to storage or analyzed, and a
\* reference to the stored image is returned in its place.
C28_StoredImageNotProcessed ==
    \A w \in WorkerIDs :
        (Active(w) /\ workers[w].db /\ workers[w].storedAtLookup)
            => NotProcessed(w)

\* C28 as amended: with a database handle configured, an image whose URL
\* the lookup finds (GetImageByURL returns without an error) is not
\* downloaded, written to storage or analyzed, and a reference to the stored
\* image is returned in its place; without the reference no image is
\* left unprocessed.
C28_FoundImageNotProcessed ==
    \A w \in WorkerIDs :
        /\ (Active(w) /\ workers[w].db /\ workers[w].storedAtLookup
               /\ ~workers[w].lookupFailed) => NotProcessed(w)
        /\ (workers[w].pc = "returned" /\ workers[w].ref = "")
               => workers[w].downloaded

\* A worker returns a reference to an image that an earlier job downloaded,
\* wrote to storage and stored.
C28_Witness ==
    \E w \in WorkerIDs :
        /\ workers[w].pc = "returned" /\ workers[w].ref = workers[w].url
        /\ workers[w].db /\ workers[w].storedAtLookup
        /\ \E f \in files : f.data = workers[w].url

(***************************************************************************)
(* Part 10: the server process from the start of the server to its end.    *)
(* main starts server.Start in a goroutine (ListenAndServe) and waits for  *)
(* SIGINT or SIGTERM; it then calls Server.Shutdown with a deadline of 30  *)
(* seconds: http.Server.Shutdown closes the listeners, which makes         *)
(* ListenAndServe return http.ErrServerClosed at once, and waits until no  *)
(* request is being handled or the deadline passes; then db.Close.         *)
(* os.Exit ends every goroutine of the process where it stands.            *)
(***************************************************************************)
RequestIDs == {"r1", "r2", "r3"}

Alive == server.exit = "none"

\* A connection is accepted and its request is handled on its own goroutine.
AcceptRequest ==
    /\ Alive /\ server.listening
    /\ \E r \in RequestIDs \ (server.handling \cup server.served) :
          server' = [server EXCEPT !.handling = @ \cup {r}]
    /\ UNCHANGED notShutdown

\* A handler returns.
FinishRequest ==
    /\ Alive
    /\ \E r \in server.handling :
          server' = [server EXCEPT !.handling = @ \ {r}, !.served = @ \cup {r}]
    /\ UNCHANGED notShutdown

\* <-quit, then context.WithTimeout(30 s) and server.Shutdown(ctx).
ReceiveSignal ==
    /\ Alive /\ server.main = "wait"
    /\ server' = [server EXCEPT !.main = "shutdown"]
    /\ UNCHANGED notShutdown

\* s.server.Shutdown(ctx) closes the listeners; ListenAndServe returns
\* ErrServerClosed to server.Start.
CloseListeners ==
    /\ Alive /\ server.main = "shutdown"
    /\ server' = [server EXCEPT !.main = "drain", !.listening = FALSE,
                                !.start = "returned"]
    /\ UNCHANGED notShutdown

\* if err := server.Start(); err != nil { logger.Error(...); os.Exit(1) }
StartReturned ==
    /\ Alive /\ server.start = "returned"
    /\ server' = [server EXCEPT !.exit = "1", !.aborted = server.handling,
                                !.handling = {}]
    /\ UNCHANGED notShutdown

\* No request is being handled: s.server.Shutdown returns nil.
Drained ==
    /\ Alive /\ server.main = "drain"
    /\ server.handling = {}
    /\ server' = [server EXCEPT !.main = "close"]
    /\ UNCHANGED notShutdown

\* The 30 seconds pass with a request still being handled: Shutdown returns
\* the context's error without closing the database, and main exits with 1.
DeadlineExceeded ==
    /\ Alive /\ server.main = "drain"
    /\ server.handling # {}
    /\ server' = [server EXCEPT !.main = "failed", !.exit = "1",
                                !.aborted = server.handling, !.handling = {}]
    /\ UNCHANGED notShutdown

\* return s.db.Close()
CloseDB ==
    /\ Alive /\ server.main = "close"
    /\ server' = [server EXCEPT !.main = "stopped", !.dbClosed = TRUE]
    /\ UNCHANGED notShutdown

\* logger.Info("server stopped") and main returns.
MainReturns ==
    /\ Alive /\ server.main = "stopped"
    /\ server' = [server EXCEPT !.exit = "0"]
    /\ UNCHANGED notShutdown

ShutdownNext ==
    \/ AcceptRequest
    \/ FinishRequest
    \/ ReceiveSignal
    \/ CloseListeners
    \/ StartReturned
    \/ Drained
    \/ DeadlineExceeded
    \/ CloseDB
    \/ MainReturns

InitShutdown ==
    GateInit /\ call = IdleCall /\ pool = IdlePool /\ EmptyStore /\ Migrated
    /\ NoRequests

SpecShutdown == InitShutdown /\ [][ShutdownNext]_vars

(***************************************************************************)
(* Claims about the shutdown (SpecShutdown).                               *)
(***************************************************************************)
\* C26: shutdown stops accepting, then drains, then closes the database:
\* the database is closed only when the listeners are closed and no request
\* is being handled, no request is cut off, and the database has been closed
\* when the process ends.
C26_GracefulShutdown ==
    /\ server.dbClosed => (~server.listening /\ server.handling = {})
    /\ server.aborted = {}
    /\ server.exit # "none" => server.dbClosed
====
